---- MODULE Spec2Model ----
(***************************************************************************)
(* The triage conversation orchestrator (ChatPage), its input layer        *)
(* (ChatInput) and the in-memory task client (geminiService).              *)
(*                                                                         *)
(* Strings are sequences of tokens.  Free text typed by the user is a      *)
(* sequence of one-character tokens, some of them whitespace; the fixed    *)
(* texts of the program are single tokens or short word sequences.         *)
(*                                                                         *)
(* One action is one event-loop task: a user event handler, a timer        *)
(* callback or the continuation of an awaited call, together with the      *)
(* render and the effects React runs when it ends.  processingStateRef     *)
(* is assigned processingState by the effect of lines 30-33 at the end of  *)
(* every task, so inside a handler the unprimed processingState is what    *)
(* processingStateRef.current reads and outside handlers the two agree.    *)
(* Remote calls and the user take arbitrary time.  Timeouts fire in any    *)
(* order, except that a poll timeout (2000 ms) fires after the askQuestion *)
(* and greeting timeouts whose chain had begun when it was set.            *)
(***************************************************************************)
EXTENDS Integers, Sequences, FiniteSets, Bags, TLC

VARIABLES
    messages,              \* useState<ChatMessage[]>
    userAnswers,           \* useState<Record<string,string>>
    processingState,       \* useState<ProcessingState> (and processingStateRef)
    isBotTyping,
    isInClarificationLoop,
    logUploadMode,
    uploadedLogs,          \* sequence of log types
    restoredText,          \* <<>> stands for undefined
    completedResult,       \* 0 stands for null, else the task the result is of
    completedTaskId,
    currentQuestionIndex,  \* currentQuestionIndexRef.current
    description,           \* descriptionRef.current
    triageTaskId,          \* triageTaskIdRef.current, 0 stands for null
    pollingTimeoutId,      \* pollingTimeoutIdRef.current, 0 stands for null
    timers,                \* bag of the pending setTimeout callbacks of askQuestion and the greeting
    pollTimers,            \* ids of pending setTimeout(poll, POLLING_INTERVAL)
    validatorCalls,        \* validateDescription calls that have not returned
    submitCalls,           \* performTriage calls that have not returned
    pollCalls,             \* pollTriageStatus calls that have not returned
    taskStore,             \* geminiService taskStore, task id = index
    geminiCalls,           \* task ids whose callGeminiApi has not returned
    cancelCalls,           \* history: task ids cancelTriage was invoked with
    comparisonAnswer,      \* history: option answered to comparison_choice, 0 if none
    stops,                 \* history: number of Stops
    resets,                \* history: number of Resets
    staleResponses,        \* history: the responses delivered after a Stop or a Reset
    chatMessages,          \* ChatDeepDive: useState<ChatMessage[]>, << >> when not mounted
    chatTyping,            \* ChatDeepDive: isBotTyping
    chatCalls,             \* chatWithReport calls that have not returned
    chatInstance,          \* the ChatDeepDive instance that is mounted, 0 if none
    chatMounts             \* history: number of ChatDeepDive instances mounted so far

vars == <<messages, userAnswers, processingState, isBotTyping, isInClarificationLoop,
          logUploadMode, uploadedLogs, restoredText, completedResult, completedTaskId,
          currentQuestionIndex, description, triageTaskId, pollingTimeoutId, timers,
          pollTimers, validatorCalls, submitCalls, pollCalls, taskStore, geminiCalls,
          cancelCalls, comparisonAnswer, stops, resets,
          staleResponses, chatMessages, chatTyping, chatCalls, chatInstance,
          chatMounts>>

\* the state of ChatDeepDive
DeepDive == <<chatMessages, chatTyping, chatCalls, chatInstance, chatMounts>>

\* the state of ChatPage and of the services it calls
ChatPage == <<messages, userAnswers, processingState, isBotTyping, isInClarificationLoop,
              logUploadMode, uploadedLogs, restoredText, completedResult, completedTaskId,
              currentQuestionIndex, description, triageTaskId, pollingTimeoutId, timers,
              pollTimers, validatorCalls, submitCalls, pollCalls, taskStore, geminiCalls,
              cancelCalls, comparisonAnswer, stops, resets, staleResponses>>

(***************************************************************************)
(* Bounds of the model.                                                    *)
(***************************************************************************)
\* free-text submissions per session (segments of the accumulated
\* description) and uploads per session, of Spec
MaxTexts == 2
MaxLogs == 1
\* the same, of SpecUploads
UploadsMaxTexts == 1
UploadsMaxLogs == 3
\* the same, and the Resets per behaviour, of SpecReset
ResetMaxTexts == 1
ResetMaxLogs == 1
MaxResets == 1
\* the session with handleStop called in every phase: free texts, uploads,
\* and the number of Stops up to which it is called where the button is not
StopMaxTexts == 1
StopMaxLogs == 1
MaxStops == 2
\* the session without Stop and Reset: two free texts, the two uploads of a
\* compare mode
LiveMaxTexts == 2
LiveMaxLogs == 2
\* the deep dive: free texts and uploads of its interview, user messages of
\* one ChatDeepDive instance
DeepDiveMaxTexts == 1
DeepDiveMaxLogs == 1
MaxChats == 2
\* the tasks a client of the task service submits, of SpecClient
ClientMaxTasks == 2

(***************************************************************************)
(* Strings.                                                                *)
(***************************************************************************)
Whitespace == {" ", "\n"}

RECURSIVE TrimLeft(_)
TrimLeft(s) ==
    IF s # <<>> /\ Head(s) \in Whitespace THEN TrimLeft(Tail(s)) ELSE s

RECURSIVE TrimRight(_)
TrimRight(s) ==
    IF s # <<>> /\ s[Len(s)] \in Whitespace
    THEN TrimRight(SubSeq(s, 1, Len(s) - 1)) ELSE s

\* String.prototype.trim
Trim(s) == TrimRight(TrimLeft(s))

\* String.prototype.includes
Includes(s, needle) ==
    \E i \in 1..(Len(s) - Len(needle) + 1) :
        SubSeq(s, i, i + Len(needle) - 1) = needle

\* what the user types into the textarea: blanks only, or, between blanks, a
\* text that differs from the texts typed before (the n-th text is "n")
TypedTexts(n) == { <<" ">>, <<" ", ToString(n), "\n">> }

RefinementDelimiter == <<"\n", "\n", "User refinement:", " ">>

\* number of free-text submissions that make up an accumulated description
Segments(d) ==
    IF d = <<>> THEN 0
    ELSE 1 + Cardinality({i \in 1..Len(d) : d[i] = "User refinement:"})

(***************************************************************************)
(* The interview script.                                                   *)
(***************************************************************************)
GoodOption == <<"Yes, I have a", "\"good\"", "log", "file to compare against.">>
BadOption  == <<"Yes, I have", "another", "\"bad\"", "log", "file to compare.">>
OneOption  == <<"No, I only have one", "log", "file.">>

TRIAGE_QUESTIONS == <<
    [id |-> "tech_area", type |-> "multiple-choice",
     text |-> <<"First, which technical area does this issue belong to?">>,
     options |-> << <<"Frontend">>, <<"Backend">>, <<"Database">>,
                    <<"Infrastructure/DevOps">> >>],
    [id |-> "environment", type |-> "multiple-choice",
     text |-> <<"In which environment did the issue occur?">>,
     options |-> << <<"Local Development">>, <<"Staging/QA">>, <<"Production">>,
                    <<"Other">> >>],
    [id |-> "impact", type |-> "multiple-choice",
     text |-> <<"What is the impact of this issue?">>,
     options |-> << <<"Single User">>, <<"Multiple Users">>,
                    <<"System Wide Outage">>, <<"Performance Degradation">> >>],
    [id |-> "usecase_description", type |-> "textarea",
     text |-> <<"Please describe what you were doing, what you observed, and what you expected to happen.">>,
     options |-> << >>],
    [id |-> "comparison_choice", type |-> "multiple-choice",
     text |-> <<"To help with the analysis, would you like to compare the logs from the incident with another log file?">>,
     options |-> << GoodOption, BadOption, OneOption >>] >>

NumQuestions == Len(TRIAGE_QUESTIONS)

QuestionIds == {TRIAGE_QUESTIONS[i].id : i \in 1..NumQuestions}

\* TRIAGE_QUESTIONS[index] of the code, whose indices start at 0
HasQuestion(index) == index >= 0 /\ index < NumQuestions
QuestionAt(index) == TRIAGE_QUESTIONS[index + 1]

\* the options the modelled user clicks: every option of the comparison
\* choice, the first option of the questions whose answer is only recorded
UserPicks(q) ==
    IF q.id = "comparison_choice" THEN 1..Len(q.options)
    ELSE IF q.options # <<>> THEN {1} ELSE {}

YesProceed == <<"Yes, proceed">>
NoRefine   == <<"No, refine">>

(***************************************************************************)
(* Messages.                                                               *)
(***************************************************************************)
Message(sender, text, requiresFileUpload, result, isLoading) ==
    [sender |-> sender, text |-> text, requiresFileUpload |-> requiresFileUpload,
     result |-> result, isLoading |-> isLoading]

BotText(text)  == Message("bot", text, FALSE, 0, FALSE)
UserText(text) == Message("user", text, FALSE, 0, FALSE)
Loading(text)  == Message("bot", text, FALSE, 0, TRUE)

\* the pending messages left in the transcript
KeepLoading(ms) == ms

NotLoading(m) == ~m.isLoading

\* prev.filter(m => !m.isLoading)
WithoutLoading(ms) == SelectSeq(ms, NotLoading)

\* the first message of the user: find without reverse
FirstUserIndex(ms) ==
    LET us == {i \in 1..Len(ms) : ms[i].sender = "user"}
    IN  IF us = {} THEN 0 ELSE CHOOSE i \in us : \A j \in us : i <= j

\* the index of [...messages].reverse().find(m => m.sender === 'user'), 0 if none
LastUserIndex(ms) ==
    LET us == {i \in 1..Len(ms) : ms[i].sender = "user"}
    IN  IF us = {} THEN 0 ELSE CHOOSE i \in us : \A j \in us : j <= i

RemoveAt(ms, i) ==
    IF i = 0 THEN ms ELSE SubSeq(ms, 1, i - 1) \o SubSeq(ms, i + 1, Len(ms))

HasLoading(ms) == \E i \in 1..Len(ms) : ms[i].isLoading
ResultMessages(ms) == {i \in 1..Len(ms) : ms[i].result # 0}

(***************************************************************************)
(* Log collection: the resolver of the comparison choice, the type given   *)
(* to an upload and the number of logs a mode waits for.                   *)
(***************************************************************************)
\* the resolver with its first test cut short to "log"
ResolveModeByLog(response) ==
    IF Includes(response, <<"log">>) THEN "compare_good"
    ELSE IF Includes(response, <<"another", "\"bad\"", "log">>) THEN "compare_bad"
    ELSE "single"

\* lines 157-163
ResolveMode(response) ==
    IF Includes(response, <<"\"good\"", "log">>) THEN "compare_good"
    ELSE IF Includes(response, <<"another", "\"bad\"", "log">>) THEN "compare_bad"
    ELSE "single"

LogType(mode, count) ==
    IF mode = "compare_good" THEN (IF count = 0 THEN "bad1" ELSE "good")
    ELSE IF mode = "compare_bad" THEN (IF count = 0 THEN "bad1" ELSE "bad2")
    ELSE "bad1"

ExpectedLogCount(mode) == IF mode = "single" THEN 1 ELSE 2

\* logType.replace('1', '').replace('2', '')
LogLabel(type) == IF type = "good" THEN "good" ELSE "bad"

\* the upload request askQuestion appends once the questions are over, for
\* the logUploadMode and uploadedLogs.length its closure holds
UploadPrompt(mode, nlogs) ==
    IF mode = "single"
    THEN << Message("bot", <<"Great. Now, please upload the relevant log file for analysis.">>, TRUE, 0, FALSE) >>
    ELSE IF mode = "compare_good"
    THEN IF nlogs = 0
         THEN << Message("bot", <<"Understood. First, please upload the 'bad' log file from when the issue occurred.">>, TRUE, 0, FALSE) >>
         ELSE << Message("bot", <<"Got it. Now, please upload the 'good' log file from when things were working correctly.">>, TRUE, 0, FALSE) >>
    ELSE IF mode = "compare_bad"
    THEN IF nlogs = 0
         THEN << Message("bot", <<"Okay. Please upload the first 'bad' log file.">>, TRUE, 0, FALSE) >>
         ELSE << Message("bot", <<"Thanks. Now, please upload the second 'bad' log file for comparison.">>, TRUE, 0, FALSE) >>
    ELSE << >>

(***************************************************************************)
(* Timers and calls in flight.                                             *)
(***************************************************************************)
\* A timeout set by askQuestion or by the greeting: the callback is kind,
\* mode and nlogs are the logUploadMode and uploadedLogs.length its closure
\* holds.  The delays of a chain of these timeouts add up to 1500 ms at most
\* (BOT_TYPING_DELAY, 100, BOT_TYPING_DELAY, 400) and a poll is set
\* POLLING_INTERVAL = 2000 ms ahead, so a chain that had started when a poll
\* timeout was set ends before that poll timeout fires: before holds the ids
\* of the poll timeouts set after the chain began.
Timer(kind, mode, nlogs, before) ==
    [kind |-> kind, mode |-> mode, nlogs |-> nlogs, before |-> before]

\* the timeouts ts when the poll timeout id is set
OlderThan(ts, id) ==
    BagOfAll(LAMBDA t : [t EXCEPT !.before = @ \cup {id}], ts)

\* the timeouts ts when only the poll timeouts live are left
Forget(ts, live) ==
    BagOfAll(LAMBDA t : [t EXCEPT !.before = @ \cap live], ts)

\* askQuestion(): the typing indicator goes on and the first timeout is set;
\* the callback keeps the logUploadMode and uploadedLogs.length of the
\* render that made this askQuestion
AskQuestion(mode, nlogs) ==
    /\ isBotTyping' = TRUE
    /\ timers' = timers (+) SetToBag({Timer("ask", mode, nlogs, {})})

FreshId(used) == CHOOSE n \in 1..(Cardinality(used) + 1) :
                     n \notin used /\ \A m \in 1..(n - 1) : m \in used

Ids(calls) == {c.id : c \in calls}

\* the history fields stopped and preReset of a call in flight say that a
\* Stop, or a Reset, was issued after the call
MarkStopped(calls) == {[c EXCEPT !.stopped = TRUE] : c \in calls}
MarkPreReset(calls) == {[c EXCEPT !.preReset = TRUE] : c \in calls}

\* staleResponses once the response outcome to the call c of kind is
\* delivered: a response is stale when a Stop or a Reset followed its call
Delivered(kind, c, outcome) ==
    IF c.stopped \/ c.preReset
    THEN staleResponses \cup {[kind |-> kind, stopped |-> c.stopped,
                                preReset |-> c.preReset, outcome |-> outcome]}
    ELSE staleResponses

NoAnswers == [q \in QuestionIds |-> << >>]

Init ==
    /\ messages = << >>
    /\ userAnswers = NoAnswers
    /\ processingState = "idle"
    /\ isBotTyping = TRUE
    /\ isInClarificationLoop = FALSE
    /\ logUploadMode = "none"
    /\ uploadedLogs = << >>
    /\ restoredText = << >>
    /\ completedResult = 0
    /\ completedTaskId = 0
    /\ currentQuestionIndex = 0
    /\ description = << >>
    /\ triageTaskId = 0
    /\ pollingTimeoutId = 0
    /\ timers = SetToBag({Timer("greet", "none", 0, {})})
    /\ pollTimers = {}
    /\ validatorCalls = {}
    /\ submitCalls = {}
    /\ pollCalls = {}
    /\ taskStore = << >>
    /\ geminiCalls = {}
    /\ cancelCalls = {}
    /\ comparisonAnswer = 0
    /\ stops = 0
    /\ resets = 0
    /\ staleResponses = {}
    /\ chatMessages = << >>
    /\ chatTyping = FALSE
    /\ chatCalls = {}
    /\ chatInstance = 0
    /\ chatMounts = 0

(***************************************************************************)
(* Timer callbacks of the greeting effect and of askQuestion.              *)
(***************************************************************************)
\* the timer t has fired and the timers in new are set
AfterTimeout(t, new) == (timers (-) SetToBag({t})) (+) SetToBag(new)

OrchestratorRefs == <<currentQuestionIndex, description, triageTaskId, pollingTimeoutId>>
TaskClient == <<taskStore, geminiCalls, cancelCalls>>
CallsInFlight == <<validatorCalls, submitCalls, pollCalls>>
Completed == <<completedResult, completedTaskId>>
History == <<comparisonAnswer, stops, resets>>

\* lines 87-91: the greeting is shown and askQuestion is set to run
GreetingTimeout(t) ==
    /\ t \in BagToSet(timers)
    /\ t.kind = "greet"
    /\ messages' = Append(messages, BotText(<<"Hello! I'm here to help you triage your log files. Let's start with a few questions to understand the context.">>))
    /\ isBotTyping' = FALSE
    /\ timers' = AfterTimeout(t, {Timer("greet_ask", t.mode, t.nlogs, t.before)})
    /\ UNCHANGED <<userAnswers, processingState, isInClarificationLoop, logUploadMode,
                   uploadedLogs, restoredText, Completed, OrchestratorRefs, pollTimers,
                   CallsInFlight, TaskClient, History, staleResponses>>
    /\ UNCHANGED DeepDive

\* line 90: setTimeout(askQuestion, 100) fires
GreetingAsk(t) ==
    /\ t \in BagToSet(timers)
    /\ t.kind = "greet_ask"
    /\ isBotTyping' = TRUE
    /\ timers' = AfterTimeout(t, {Timer("ask", t.mode, t.nlogs, t.before)})
    /\ UNCHANGED <<messages, userAnswers, processingState, isInClarificationLoop,
                   logUploadMode, uploadedLogs, restoredText, Completed, OrchestratorRefs,
                   pollTimers, CallsInFlight, TaskClient, History, staleResponses>>
    /\ UNCHANGED DeepDive

\* lines 50-80: the question at the cursor, or the upload request, is shown
AskTimeout(t) ==
    /\ t \in BagToSet(timers)
    /\ t.kind = "ask"
    /\ messages' =
          IF currentQuestionIndex < NumQuestions
          THEN Append(messages, BotText(QuestionAt(currentQuestionIndex).text))
          ELSE messages \o UploadPrompt(t.mode, t.nlogs)
    /\ isBotTyping' = FALSE
    /\ timers' = AfterTimeout(t, {Timer("show_input", "none", 0, t.before)})
    /\ UNCHANGED <<userAnswers, processingState, isInClarificationLoop, logUploadMode,
                   uploadedLogs, restoredText, Completed, OrchestratorRefs, pollTimers,
                   CallsInFlight, TaskClient, History, staleResponses>>
    /\ UNCHANGED DeepDive

\* lines 76-78
ShowInputTimeout(t) ==
    /\ t \in BagToSet(timers)
    /\ t.kind = "show_input"
    /\ processingState' = "awaiting_user_input"
    /\ timers' = AfterTimeout(t, {})
    /\ UNCHANGED <<messages, userAnswers, isBotTyping, isInClarificationLoop,
                   logUploadMode, uploadedLogs, restoredText, Completed, OrchestratorRefs,
                   pollTimers, CallsInFlight, TaskClient, History, staleResponses>>
    /\ UNCHANGED DeepDive

(***************************************************************************)
(* handleUserResponse and validateFullDescription.                         *)
(***************************************************************************)
ValidatorCall(mode, nlogs) ==
    [id |-> FreshId(Ids(validatorCalls)), mode |-> mode, nlogs |-> nlogs,
     stopped |-> FALSE, preReset |-> FALSE]

\* a validation that calls validateDescription twice
ValidateTwice(ms) ==
    /\ processingState' = "validating_description"
    /\ messages' = Append(ms, Loading(<<"Analyzing description...">>))
    /\ validatorCalls' = validatorCalls \cup
           {ValidatorCall(logUploadMode, Len(uploadedLogs)),
            [ValidatorCall(logUploadMode, Len(uploadedLogs)) EXCEPT !.id = @ + 1]}

\* lines 95-100, up to the await: ms is the transcript with the user's message
ValidateFullDescription(ms) ==
    /\ processingState' = "validating_description"
    /\ messages' = Append(ms, Loading(<<"Analyzing description...">>))
    /\ validatorCalls' = validatorCalls \cup
           {ValidatorCall(logUploadMode, Len(uploadedLogs))}

\* the option of question q that reads response, 0 if none does
OptionIndex(q, response) ==
    LET is == {i \in 1..Len(q.options) : q.options[i] = response}
    IN  IF is = {} THEN 0 ELSE CHOOSE i \in is : TRUE

\* lines 125-172
HandleUserResponse(response) ==
    LET ms == Append(messages, UserText(response)) IN
    /\ restoredText' = << >>
    /\ IF processingState = "awaiting_confirmation"
       THEN IF response = YesProceed
            THEN /\ messages' = ms
                 /\ processingState' = "transitioning"
                 /\ userAnswers' = [userAnswers EXCEPT
                                      !["usecase_description"] = Trim(description)]
                 /\ currentQuestionIndex' = currentQuestionIndex + 1
                 /\ AskQuestion(logUploadMode, Len(uploadedLogs))
                 /\ UNCHANGED <<isInClarificationLoop, description, logUploadMode,
                                validatorCalls, comparisonAnswer>>
            ELSE /\ messages' = Append(ms, BotText(<<"My apologies. Please provide more details or correct my understanding.">>))
                 /\ isInClarificationLoop' = TRUE
                 /\ processingState' = "awaiting_user_input"
                 /\ UNCHANGED <<userAnswers, currentQuestionIndex, description,
                                logUploadMode, isBotTyping, timers, validatorCalls,
                                comparisonAnswer>>
       ELSE IF currentQuestionIndex >= NumQuestions
       THEN /\ messages' = ms
            /\ processingState' = "transitioning"
            /\ UNCHANGED <<userAnswers, currentQuestionIndex, description, logUploadMode,
                           isInClarificationLoop, isBotTyping, timers, validatorCalls,
                           comparisonAnswer>>
       ELSE LET currentQuestion == QuestionAt(currentQuestionIndex) IN
            IF currentQuestion.id = "usecase_description" \/ isInClarificationLoop
            THEN /\ description' =
                       IF ~isInClarificationLoop THEN response
                       ELSE description \o RefinementDelimiter \o response
                 /\ isInClarificationLoop' = TRUE
                 /\ ValidateFullDescription(ms)
                 /\ UNCHANGED <<userAnswers, currentQuestionIndex, logUploadMode,
                                isBotTyping, timers, comparisonAnswer>>
            ELSE IF currentQuestion.id = "comparison_choice"
            THEN /\ messages' = ms
                 /\ processingState' = "transitioning"
                 /\ logUploadMode' = ResolveMode(response)
                 /\ comparisonAnswer' = OptionIndex(currentQuestion, response)
                 /\ currentQuestionIndex' = currentQuestionIndex + 1
                 /\ AskQuestion(logUploadMode, Len(uploadedLogs))
                 /\ UNCHANGED <<userAnswers, description, isInClarificationLoop,
                                validatorCalls>>
            ELSE /\ messages' = ms
                 /\ processingState' = "transitioning"
                 /\ userAnswers' = [userAnswers EXCEPT ![currentQuestion.id] = response]
                 /\ currentQuestionIndex' = currentQuestionIndex + 1
                 /\ AskQuestion(logUploadMode, Len(uploadedLogs))
                 /\ UNCHANGED <<description, isInClarificationLoop, logUploadMode,
                                validatorCalls, comparisonAnswer>>
    /\ UNCHANGED <<uploadedLogs, Completed, triageTaskId, pollingTimeoutId, pollTimers,
                   submitCalls, pollCalls, TaskClient, stops, resets, staleResponses>>
    /\ UNCHANGED DeepDive

\* a response that handleUserResponse would append to the accumulated
\* description is taken while the description has room for it
WithinTextBound(maxTexts) ==
    (processingState = "awaiting_user_input" /\ isInClarificationLoop)
        => Segments(description) < maxTexts

\* the input layer of awaiting_user_input, part_008 lines 99-169
CurrentQuestionShown == HasQuestion(currentQuestionIndex)
OptionsShown ==
    /\ processingState = "awaiting_user_input"
    /\ CurrentQuestionShown
    /\ QuestionAt(currentQuestionIndex).options # << >>
TextareaShown ==
    /\ processingState = "awaiting_user_input"
    /\ CurrentQuestionShown
    /\ QuestionAt(currentQuestionIndex).options = << >>
    /\ QuestionAt(currentQuestionIndex).type = "textarea"
UploadShown ==
    /\ processingState = "awaiting_user_input"
    /\ ~CurrentQuestionShown
ConfirmShown == processingState = "awaiting_confirmation"
StopShown == processingState \in {"processing", "validating_description"}
ResetShown == processingState \in {"complete", "error"}

\* part_008 line 107: an option button is clicked
ChooseOption(o, maxTexts) ==
    /\ OptionsShown
    /\ WithinTextBound(maxTexts)
    /\ o \in UserPicks(QuestionAt(currentQuestionIndex))
    /\ HandleUserResponse(QuestionAt(currentQuestionIndex).options[o])

\* the content of the textarea: what the user typed, or the restored text
\* that the effect of part_008 lines 32-36 has put there
TextInputs ==
    TypedTexts(Segments(description) + 1)
        \cup (IF restoredText = << >> THEN {} ELSE {restoredText})

\* part_008 lines 38-44: the content of the textarea is submitted
SubmitText(raw, maxTexts) ==
    /\ TextareaShown
    /\ WithinTextBound(maxTexts)
    /\ raw \in TextInputs
    /\ Trim(raw) # << >>
    /\ HandleUserResponse(Trim(raw))

\* part_008 lines 65-81
Confirm(response) ==
    /\ ConfirmShown
    /\ response \in {YesProceed, NoRefine}
    /\ HandleUserResponse(response)

(***************************************************************************)
(* validateFullDescription after the await, lines 100-122.                 *)
(***************************************************************************)
\* lines 102 and 115: the guard that drops a validator response
ValidatorResponseDropped == processingState # "validating_description"

\* line 118
ValidationIssue ==
    BotText(<<"There was an issue validating the description. Let's proceed for now.">>)

ValidatorOutcomes == {"sufficient", "insufficient", "failure"}

\* a validator whose clarifying question advances the cursor
ValidatorReturnAdvances(c, outcome) ==
    /\ c \in validatorCalls
    /\ outcome \in ValidatorOutcomes
    /\ validatorCalls' = validatorCalls \ {c}
    /\ staleResponses' = Delivered("validator", c, outcome)
    /\ IF ValidatorResponseDropped
       THEN UNCHANGED <<messages, processingState, isInClarificationLoop, userAnswers,
                        currentQuestionIndex, isBotTyping, timers>>
       ELSE IF outcome = "sufficient"
       THEN /\ isInClarificationLoop' = FALSE
            /\ messages' = Append(WithoutLoading(messages), BotText(<<"summary">>))
            /\ processingState' = "awaiting_confirmation"
            /\ UNCHANGED <<userAnswers, currentQuestionIndex, isBotTyping, timers>>
       ELSE IF outcome = "insufficient"
       THEN /\ messages' = Append(WithoutLoading(messages), BotText(<<"clarifyingQuestion">>))
            /\ processingState' = "awaiting_user_input"
            /\ currentQuestionIndex' = currentQuestionIndex + 1
            /\ UNCHANGED <<isInClarificationLoop, userAnswers, isBotTyping, timers>>
       ELSE /\ messages' = Append(WithoutLoading(messages), ValidationIssue)
            /\ userAnswers' = [userAnswers EXCEPT
                                 !["usecase_description"] = Trim(description)]
            /\ currentQuestionIndex' = currentQuestionIndex + 1
            /\ AskQuestion(c.mode, c.nlogs)
            /\ UNCHANGED <<processingState, isInClarificationLoop>>
    /\ UNCHANGED <<logUploadMode, uploadedLogs, restoredText, Completed, description,
                   triageTaskId, pollingTimeoutId, pollTimers, submitCalls, pollCalls,
                   TaskClient, History>>
    /\ UNCHANGED DeepDive

\* lines 100-122: the answer of validateDescription arrives, or the call throws
ValidatorReturn(c, outcome) ==
    /\ c \in validatorCalls
    /\ outcome \in ValidatorOutcomes
    /\ validatorCalls' = validatorCalls \ {c}
    /\ staleResponses' = Delivered("validator", c, outcome)
    /\ IF ValidatorResponseDropped
       THEN UNCHANGED <<messages, processingState, isInClarificationLoop, userAnswers,
                        currentQuestionIndex, isBotTyping, timers>>
       ELSE IF outcome = "sufficient"
       THEN /\ isInClarificationLoop' = FALSE
            /\ messages' = Append(WithoutLoading(messages), BotText(<<"summary">>))
            /\ processingState' = "awaiting_confirmation"
            /\ UNCHANGED <<userAnswers, currentQuestionIndex, isBotTyping, timers>>
       ELSE IF outcome = "insufficient"
       THEN /\ messages' = Append(WithoutLoading(messages), BotText(<<"clarifyingQuestion">>))
            /\ processingState' = "awaiting_user_input"
            /\ UNCHANGED <<isInClarificationLoop, userAnswers, currentQuestionIndex,
                           isBotTyping, timers>>
       ELSE /\ messages' = Append(WithoutLoading(messages), ValidationIssue)
            /\ userAnswers' = [userAnswers EXCEPT
                                 !["usecase_description"] = Trim(description)]
            /\ currentQuestionIndex' = currentQuestionIndex + 1
            /\ AskQuestion(c.mode, c.nlogs)
            /\ UNCHANGED <<processingState, isInClarificationLoop>>
    /\ UNCHANGED <<logUploadMode, uploadedLogs, restoredText, Completed, description,
                   triageTaskId, pollingTimeoutId, pollTimers, submitCalls, pollCalls,
                   TaskClient, History>>
    /\ UNCHANGED DeepDive

(***************************************************************************)
(* handleFileUpload up to the awaits, lines 174-204.                       *)
(***************************************************************************)
SubmitCall(logs) ==
    [id |-> FreshId(Ids(submitCalls)), logs |-> logs,
     stopped |-> FALSE, preReset |-> FALSE]

UploadFile(maxLogs) ==
    LET logType == LogType(logUploadMode, Len(uploadedLogs))
        updatedLogs == Append(uploadedLogs, logType)
        ms == Append(messages, UserText(<<"Uploaded file", LogLabel(logType)>>))
    IN
    /\ UploadShown
    /\ Len(uploadedLogs) < maxLogs
    /\ uploadedLogs' = updatedLogs
    /\ IF Len(updatedLogs) < ExpectedLogCount(logUploadMode)
       THEN /\ messages' = ms
            /\ AskQuestion(logUploadMode, Len(uploadedLogs))
            /\ UNCHANGED <<processingState, submitCalls>>
       ELSE /\ processingState' = "processing"
            /\ messages' = Append(ms, Loading(<<"Submitting logs for analysis...">>))
            /\ submitCalls' = submitCalls \cup {SubmitCall(updatedLogs)}
            /\ UNCHANGED <<isBotTyping, timers>>
    /\ UNCHANGED <<userAnswers, isInClarificationLoop, logUploadMode, restoredText,
                   Completed, OrchestratorRefs, pollTimers, validatorCalls, pollCalls,
                   TaskClient, History, staleResponses>>
    /\ UNCHANGED DeepDive

(***************************************************************************)
(* The task client, geminiService lines 76-131 and 218-232.                *)
(***************************************************************************)
Task(logs) == [status |-> "PENDING", result |-> FALSE, logs |-> logs]

\* a cancel that sets every task it finds to FAILED
CancelTriageAlways(store, taskId) ==
    IF taskId \in DOMAIN store
    THEN [store EXCEPT ![taskId].status = "FAILED"]
    ELSE store

\* cancelTriage
CancelTriage(store, taskId) ==
    IF taskId \in DOMAIN store /\ store[taskId].status \in {"PENDING", "PROCESSING"}
    THEN [store EXCEPT ![taskId].status = "FAILED"]
    ELSE store

\* a poll that answers PROCESSING for an id the store does not hold
PollStatusUnknownProcessing(store, taskId) ==
    IF taskId \in DOMAIN store /\ store[taskId].status \in {"SUCCESS", "FAILED"}
    THEN [status |-> store[taskId].status,
          message |-> IF store[taskId].status = "FAILED"
                      THEN "Analysis failed or was cancelled." ELSE "Complete",
          result |-> IF store[taskId].result THEN taskId ELSE 0]
    ELSE IF taskId \in DOMAIN store /\ store[taskId].status = "PENDING"
    THEN [status |-> "PROCESSING", message |-> "AI is reviewing the logs...", result |-> 0]
    ELSE [status |-> "PROCESSING", message |-> "Generating summary and actions...",
          result |-> 0]

\* pollTriageStatus: the status it returns
PollStatus(store, taskId) ==
    IF taskId \notin DOMAIN store
    THEN [status |-> "FAILED", message |-> "Task not found.", result |-> 0]
    ELSE IF store[taskId].status \in {"SUCCESS", "FAILED"}
    THEN [status |-> store[taskId].status,
          message |-> IF store[taskId].status = "FAILED"
                      THEN "Analysis failed or was cancelled." ELSE "Complete",
          result |-> IF store[taskId].result THEN taskId ELSE 0]
    ELSE IF store[taskId].status = "PENDING"
    THEN [status |-> "PROCESSING", message |-> "AI is reviewing the logs...", result |-> 0]
    ELSE [status |-> "PROCESSING", message |-> "Generating summary and actions...",
          result |-> 0]

\* a poll that sets every task it finds to PROCESSING
PollStoreRestarts(store, taskId) ==
    IF taskId \in DOMAIN store
    THEN [store EXCEPT ![taskId].status = "PROCESSING"]
    ELSE store

\* pollTriageStatus: the store it leaves
PollStore(store, taskId) ==
    IF taskId \in DOMAIN store /\ store[taskId].status = "PENDING"
    THEN [store EXCEPT ![taskId].status = "PROCESSING"]
    ELSE store

\* a poll that starts the analysis of every task that has not succeeded, a
\* cancelled one included
PollStartsUnlessSucceeded(store, taskId) ==
    taskId \in DOMAIN store /\ store[taskId].status # "SUCCESS"

\* pollTriageStatus starts callGeminiApi
PollStartsAnalysis(store, taskId) ==
    taskId \in DOMAIN store /\ store[taskId].status = "PENDING"

\* what the remote call of callGeminiApi ends with: a text that JSON.parse
\* (line 219) reads as a result, a text it reads as null, or an exception
GeminiOutcomes == {"result", "null", "thrown"}

\* a callGeminiApi that stores its result without looking at the status
GeminiReturnUnguarded(taskId, outcome) ==
    /\ taskId \in geminiCalls
    /\ outcome \in GeminiOutcomes
    /\ geminiCalls' = geminiCalls \ {taskId}
    /\ taskStore' =
          IF outcome # "thrown"
          THEN [taskStore EXCEPT ![taskId].status = "SUCCESS",
                                 ![taskId].result = (outcome = "result")]
          ELSE [taskStore EXCEPT ![taskId].status = "FAILED"]
    /\ UNCHANGED <<messages, userAnswers, processingState, isBotTyping,
                   isInClarificationLoop, logUploadMode, uploadedLogs, restoredText,
                   Completed, OrchestratorRefs, timers, pollTimers, CallsInFlight,
                   cancelCalls, History, staleResponses>>
    /\ UNCHANGED DeepDive

\* callGeminiApi returns: lines 218-225 when the remote call succeeded,
\* lines 227-232 when it threw; the field result of a task says whether
\* its result is truthy
GeminiReturn(taskId, outcome) ==
    /\ taskId \in geminiCalls
    /\ outcome \in GeminiOutcomes
    /\ geminiCalls' = geminiCalls \ {taskId}
    /\ taskStore' =
          IF outcome # "thrown"
          THEN IF taskStore[taskId].status = "PROCESSING"
               THEN [taskStore EXCEPT ![taskId].status = "SUCCESS",
                                      ![taskId].result = (outcome = "result")]
               ELSE taskStore
          ELSE [taskStore EXCEPT ![taskId].status = "FAILED"]
    /\ UNCHANGED <<messages, userAnswers, processingState, isBotTyping,
                   isInClarificationLoop, logUploadMode, uploadedLogs, restoredText,
                   Completed, OrchestratorRefs, timers, pollTimers, CallsInFlight,
                   cancelCalls, History, staleResponses>>
    /\ UNCHANGED DeepDive

(***************************************************************************)
(* handleFileUpload after the awaits, and poll: lines 204-249.             *)
(***************************************************************************)
\* the failure of the submission dropped in every phase
SubmitFailureSwallowed == TRUE

\* line 244: the guard that drops a failure of the submission
SubmitFailureDropped == processingState # "processing"

\* performTriage resolves (the task is made and its id returned), or the
\* reading of the files or the submission throws
SubmitReturn(c, ok) ==
    /\ c \in submitCalls
    /\ submitCalls' = submitCalls \ {c}
    /\ staleResponses' = Delivered("submit", c, IF ok THEN "taskId" ELSE "thrown")
    /\ IF ok
       THEN LET taskId == Len(taskStore) + 1
                timerId == FreshId(pollTimers)
            IN  /\ taskStore' = Append(taskStore, Task(c.logs))
                /\ triageTaskId' = taskId
                /\ pollTimers' = pollTimers \cup {timerId}
                /\ pollingTimeoutId' = timerId
                /\ timers' = OlderThan(timers, timerId)
                /\ UNCHANGED <<messages, processingState>>
       ELSE /\ IF SubmitFailureDropped
               THEN UNCHANGED <<messages, processingState>>
               ELSE /\ messages' = Append(messages, BotText(<<"Failed to start triage">>))
                    /\ processingState' = "error"
            /\ UNCHANGED <<taskStore, triageTaskId, pollTimers, pollingTimeoutId, timers>>
    /\ UNCHANGED <<userAnswers, isBotTyping, isInClarificationLoop, logUploadMode,
                   uploadedLogs, restoredText, Completed, currentQuestionIndex,
                   description, validatorCalls, pollCalls, geminiCalls,
                   cancelCalls, History>>
    /\ UNCHANGED DeepDive

PollCall(taskId, status) ==
    [id |-> FreshId(Ids(pollCalls)), task |-> taskId, status |-> status.status,
     message |-> status.message, result |-> status.result,
     stopped |-> FALSE, preReset |-> FALSE]

\* lines 207-210: the poll timer fires and poll calls pollTriageStatus, whose
\* body runs at once; its answer is on its way
PollTimeout(timerId) ==
    /\ timerId \in pollTimers
    /\ \A t \in BagToSet(timers) : timerId \notin t.before
    /\ pollTimers' = pollTimers \ {timerId}
    /\ IF triageTaskId = 0
       THEN UNCHANGED <<pollCalls, taskStore, geminiCalls>>
       ELSE /\ pollCalls' = pollCalls \cup
                   {PollCall(triageTaskId, PollStatus(taskStore, triageTaskId))}
            /\ taskStore' = PollStore(taskStore, triageTaskId)
            /\ geminiCalls' = IF PollStartsAnalysis(taskStore, triageTaskId)
                              THEN geminiCalls \cup {triageTaskId} ELSE geminiCalls
    /\ UNCHANGED <<messages, userAnswers, processingState, isBotTyping,
                   isInClarificationLoop, logUploadMode, uploadedLogs, restoredText,
                   Completed, OrchestratorRefs, timers, validatorCalls, submitCalls,
                   cancelCalls, History, staleResponses>>
    /\ UNCHANGED DeepDive

\* the guard left out: every poll response is handled
PollResponseNeverDropped == FALSE

\* lines 212 and 234: the guard that drops a poll response
PollResponseDropped == processingState # "processing"

\* prev.map(m => m.isLoading ? { ...m, text } : m)
SetLoadingText(ms, text) ==
    [i \in 1..Len(ms) |-> IF ms[i].isLoading THEN [ms[i] EXCEPT !.text = text] ELSE ms[i]]

\* clearTimeout(pollingTimeoutIdRef.current)
ClearPollTimeout == pollTimers \ {pollingTimeoutId}

\* line 236
PollError == BotText(<<"An error occurred while checking the analysis status.">>)

\* lines 210-239: the answer of pollTriageStatus arrives, or the call throws
PollReturn(c, ok) ==
    /\ c \in pollCalls
    /\ pollCalls' = pollCalls \ {c}
    /\ staleResponses' = Delivered("poll", c, IF ok THEN c.status ELSE "thrown")
    /\ IF PollResponseDropped
       THEN UNCHANGED <<messages, processingState, Completed, pollTimers, pollingTimeoutId>>
       ELSE IF ~ok
       THEN /\ messages' = Append(messages, PollError)
            /\ processingState' = "error"
            /\ pollTimers' = ClearPollTimeout
            /\ UNCHANGED <<Completed, pollingTimeoutId>>
       ELSE LET ms == SetLoadingText(messages, <<c.message>>) IN
            IF c.status = "SUCCESS" /\ c.result # 0
            THEN /\ messages' = Append(WithoutLoading(ms), Message("bot", << >>, FALSE, c.result, FALSE))
                 /\ processingState' = "complete"
                 /\ pollTimers' = ClearPollTimeout
                 /\ completedResult' = c.result
                 /\ completedTaskId' = triageTaskId
                 /\ UNCHANGED pollingTimeoutId
            ELSE IF c.status = "FAILED"
            THEN /\ messages' = Append(WithoutLoading(ms), BotText(<<"Analysis failed:", c.message>>))
                 /\ processingState' = "error"
                 /\ pollTimers' = ClearPollTimeout
                 /\ UNCHANGED <<Completed, pollingTimeoutId>>
            ELSE LET timerId == FreshId(pollTimers) IN
                 /\ messages' = ms
                 /\ pollTimers' = pollTimers \cup {timerId}
                 /\ pollingTimeoutId' = timerId
                 /\ UNCHANGED <<processingState, Completed>>
    /\ timers' = Forget(IF pollingTimeoutId' \in pollTimers' \ pollTimers
                        THEN OlderThan(timers, pollingTimeoutId') ELSE timers,
                        pollTimers')
    /\ UNCHANGED <<userAnswers, isBotTyping, isInClarificationLoop, logUploadMode,
                   uploadedLogs, restoredText, currentQuestionIndex, description,
                   triageTaskId, validatorCalls, submitCalls, TaskClient,
                   History>>
    /\ UNCHANGED DeepDive

(***************************************************************************)
(* handleStop and handleReset, lines 253-302.                              *)
(***************************************************************************)
\* line 282
StoppedByUser == BotText(<<"Analysis stopped by user.">>)

\* a handleStop that cancels the task in every phase but validating_description
HandleStopCancels ==
    /\ stops' = stops + 1
    /\ pollTimers' = ClearPollTimeout
    /\ timers' = Forget(timers, pollTimers')
    /\ pollingTimeoutId' = 0
    /\ IF processingState = "validating_description"
       THEN LET last == LastUserIndex(messages)
                lastQuestionIsDescription ==
                    HasQuestion(currentQuestionIndex)
                    /\ QuestionAt(currentQuestionIndex).id = "usecase_description"
                restore == last # 0 /\ (lastQuestionIsDescription \/ isInClarificationLoop)
            IN  /\ restoredText' = IF restore THEN messages[last].text ELSE restoredText
                /\ messages' = WithoutLoading(IF restore THEN RemoveAt(messages, last)
                                              ELSE messages)
                /\ processingState' = "awaiting_user_input"
                /\ validatorCalls' = MarkStopped(validatorCalls)
                /\ UNCHANGED <<triageTaskId, taskStore, cancelCalls, submitCalls, pollCalls>>
       ELSE IF processingState = "processing"
       THEN /\ IF triageTaskId # 0
               THEN /\ taskStore' = CancelTriage(taskStore, triageTaskId)
                    /\ cancelCalls' = cancelCalls \cup {triageTaskId}
                    /\ triageTaskId' = 0
               ELSE UNCHANGED <<taskStore, cancelCalls, triageTaskId>>
            /\ messages' = Append(WithoutLoading(messages), StoppedByUser)
            /\ processingState' = "error"
            /\ submitCalls' = MarkStopped(submitCalls)
            /\ pollCalls' = MarkStopped(pollCalls)
            /\ UNCHANGED <<restoredText, validatorCalls>>
       ELSE /\ taskStore' = CancelTriage(taskStore, triageTaskId)
            /\ cancelCalls' = cancelCalls \cup {triageTaskId}
            /\ UNCHANGED <<restoredText, messages, processingState, validatorCalls,
                           triageTaskId, submitCalls, pollCalls>>
    /\ UNCHANGED <<userAnswers, isBotTyping, isInClarificationLoop, logUploadMode,
                   uploadedLogs, Completed, currentQuestionIndex, description,
                   geminiCalls, comparisonAnswer, resets, staleResponses>>
    /\ UNCHANGED DeepDive

\* lines 253-285: handleStop
HandleStop ==
    /\ stops' = stops + 1
    /\ pollTimers' = ClearPollTimeout
    /\ timers' = Forget(timers, pollTimers')
    /\ pollingTimeoutId' = 0
    /\ IF processingState = "validating_description"
       THEN LET last == LastUserIndex(messages)
                lastQuestionIsDescription ==
                    HasQuestion(currentQuestionIndex)
                    /\ QuestionAt(currentQuestionIndex).id = "usecase_description"
                restore == last # 0 /\ (lastQuestionIsDescription \/ isInClarificationLoop)
            IN  /\ restoredText' = IF restore THEN messages[last].text ELSE restoredText
                /\ messages' = WithoutLoading(IF restore THEN RemoveAt(messages, last)
                                              ELSE messages)
                /\ processingState' = "awaiting_user_input"
                /\ validatorCalls' = MarkStopped(validatorCalls)
                /\ UNCHANGED <<triageTaskId, taskStore, cancelCalls, submitCalls, pollCalls>>
       ELSE IF processingState = "processing"
       THEN /\ IF triageTaskId # 0
               THEN /\ taskStore' = CancelTriage(taskStore, triageTaskId)
                    /\ cancelCalls' = cancelCalls \cup {triageTaskId}
                    /\ triageTaskId' = 0
               ELSE UNCHANGED <<taskStore, cancelCalls, triageTaskId>>
            /\ messages' = Append(WithoutLoading(messages), StoppedByUser)
            /\ processingState' = "error"
            /\ submitCalls' = MarkStopped(submitCalls)
            /\ pollCalls' = MarkStopped(pollCalls)
            /\ UNCHANGED <<restoredText, validatorCalls>>
       ELSE UNCHANGED <<restoredText, messages, processingState, validatorCalls,
                        triageTaskId, taskStore, cancelCalls, submitCalls, pollCalls>>
    /\ UNCHANGED <<userAnswers, isBotTyping, isInClarificationLoop, logUploadMode,
                   uploadedLogs, Completed, currentQuestionIndex, description,
                   geminiCalls, comparisonAnswer, resets, staleResponses>>
    /\ UNCHANGED DeepDive

\* part_008 lines 84-96: the Stop button is clicked
Stop ==
    /\ StopShown
    /\ HandleStop

\* handleReset, and the greeting effect of lines 84-93 that runs because
\* processingState is idle again
Reset ==
    /\ ResetShown
    /\ resets < MaxResets
    /\ resets' = resets + 1
    /\ pollTimers' = ClearPollTimeout
    /\ pollingTimeoutId' = 0
    /\ messages' = << >>
    /\ userAnswers' = NoAnswers
    /\ currentQuestionIndex' = 0
    /\ triageTaskId' = 0
    /\ description' = << >>
    /\ isInClarificationLoop' = FALSE
    /\ logUploadMode' = "none"
    /\ uploadedLogs' = << >>
    /\ restoredText' = << >>
    /\ processingState' = "idle"
    /\ isBotTyping' = TRUE
    /\ timers' = Forget(timers, pollTimers') (+) SetToBag({Timer("greet", "none", 0, {})})
    /\ validatorCalls' = MarkPreReset(validatorCalls)
    /\ submitCalls' = MarkPreReset(submitCalls)
    /\ pollCalls' = MarkPreReset(pollCalls)
    /\ comparisonAnswer' = 0
    /\ UNCHANGED <<Completed, TaskClient, stops, staleResponses>>
    /\ UNCHANGED DeepDive

(***************************************************************************)
(* The render of ChatPage, lines 304-317: ChatDeepDive replaces the        *)
(* interview when the phase is complete, a task id is held and a message   *)
(* of the transcript carries a result.                                     *)
(***************************************************************************)
\* messages.find(m => m.result)?.result, 0 if there is none
FirstResult(ms) ==
    LET rs == {i \in 1..Len(ms) : ms[i].result # 0}
    IN  IF rs = {} THEN 0 ELSE ms[CHOOSE i \in rs : \A j \in rs : i <= j].result

\* line 306
DeepDiveActive ==
    /\ processingState = "complete"
    /\ triageTaskId # 0
    /\ FirstResult(messages) # 0

\* lines 311-312: the props taskId and initialResult of ChatDeepDive
DeepDiveTaskId == triageTaskId
DeepDiveResult == FirstResult(messages)

\* what happens within one session
SessionNext(maxTexts, maxLogs) ==
    \/ \E t \in BagToSet(timers) : GreetingTimeout(t)
    \/ \E t \in BagToSet(timers) : GreetingAsk(t)
    \/ \E t \in BagToSet(timers) : AskTimeout(t)
    \/ \E t \in BagToSet(timers) : ShowInputTimeout(t)
    \/ \E o \in 1..4 : ChooseOption(o, maxTexts)
    \/ \E raw \in TextInputs : SubmitText(raw, maxTexts)
    \/ \E response \in {YesProceed, NoRefine} : Confirm(response)
    \/ UploadFile(maxLogs)
    \/ Stop
    \/ \E c \in validatorCalls, outcome \in ValidatorOutcomes : ValidatorReturn(c, outcome)
    \/ \E c \in submitCalls, ok \in BOOLEAN : SubmitReturn(c, ok)
    \/ \E t \in pollTimers : PollTimeout(t)
    \/ \E c \in pollCalls, ok \in BOOLEAN : PollReturn(c, ok)
    \/ \E t \in geminiCalls, outcome \in GeminiOutcomes : GeminiReturn(t, outcome)

Next == SessionNext(MaxTexts, MaxLogs)
NextUploads == SessionNext(UploadsMaxTexts, UploadsMaxLogs)
NextReset == SessionNext(ResetMaxTexts, ResetMaxLogs) \/ Reset

\* what happens without the user: timeouts fire and calls return
Unattended ==
    \/ \E t \in BagToSet(timers) : GreetingTimeout(t)
    \/ \E t \in BagToSet(timers) : GreetingAsk(t)
    \/ \E t \in BagToSet(timers) : AskTimeout(t)
    \/ \E t \in BagToSet(timers) : ShowInputTimeout(t)
    \/ \E c \in validatorCalls, outcome \in ValidatorOutcomes : ValidatorReturn(c, outcome)
    \/ \E c \in submitCalls, ok \in BOOLEAN : SubmitReturn(c, ok)
    \/ \E t \in pollTimers : PollTimeout(t)
    \/ \E c \in pollCalls, ok \in BOOLEAN : PollReturn(c, ok)
    \/ \E t \in geminiCalls, outcome \in GeminiOutcomes : GeminiReturn(t, outcome)

\* a session with uploads beyond the count, then a Reset, after which the
\* user does nothing
NextUploadsReset ==
    \/ resets = 0 /\ NextUploads
    \/ Reset
    \/ resets > 0 /\ Unattended

\* one session of the interview, two free texts, one upload
Spec == Init /\ [][Next]_vars
\* one session with uploads beyond the count the mode waits for
SpecUploads == Init /\ [][NextUploads]_vars
\* two sessions
SpecReset == Init /\ [][NextReset]_vars
\* one session with uploads beyond the count, and the Reset after it
SpecUploadsReset == Init /\ [][NextUploadsReset]_vars

\* handleStop called in a phase in which the Stop button is not there
StopAnywhere ==
    /\ ~StopShown
    /\ stops < MaxStops
    /\ HandleStop

\* one session in which handleStop is called in every phase
NextStopAnywhere ==
    \/ SessionNext(StopMaxTexts, StopMaxLogs)
    \/ StopAnywhere

SpecStopAnywhere == Init /\ [][NextStopAnywhere]_vars

\* a session in which Stop and Reset are not issued, performTriage resolves and
\* the analysis ends with a result or throws
NextLive ==
    \/ \E t \in BagToSet(timers) : GreetingTimeout(t)
    \/ \E t \in BagToSet(timers) : GreetingAsk(t)
    \/ \E t \in BagToSet(timers) : AskTimeout(t)
    \/ \E t \in BagToSet(timers) : ShowInputTimeout(t)
    \/ \E o \in 1..4 : ChooseOption(o, LiveMaxTexts)
    \/ \E raw \in TextInputs : SubmitText(raw, LiveMaxTexts)
    \/ \E response \in {YesProceed, NoRefine} : Confirm(response)
    \/ UploadFile(LiveMaxLogs)
    \/ \E c \in validatorCalls, outcome \in ValidatorOutcomes : ValidatorReturn(c, outcome)
    \/ \E c \in submitCalls : SubmitReturn(c, TRUE)
    \/ \E t \in pollTimers : PollTimeout(t)
    \/ \E c \in pollCalls, ok \in BOOLEAN : PollReturn(c, ok)
    \/ \E t \in geminiCalls, outcome \in GeminiOutcomes \ {"null"} : GeminiReturn(t, outcome)

\* every timeout that is set fires and every call that is made returns
Responsive ==
    /\ WF_vars(\E t \in BagToSet(timers) : GreetingTimeout(t))
    /\ WF_vars(\E t \in BagToSet(timers) : GreetingAsk(t))
    /\ WF_vars(\E t \in BagToSet(timers) : AskTimeout(t))
    /\ WF_vars(\E t \in BagToSet(timers) : ShowInputTimeout(t))
    /\ WF_vars(\E c \in validatorCalls, outcome \in ValidatorOutcomes : ValidatorReturn(c, outcome))
    /\ WF_vars(\E c \in submitCalls : SubmitReturn(c, TRUE))
    /\ WF_vars(\E t \in pollTimers : PollTimeout(t))
    /\ WF_vars(\E c \in pollCalls, ok \in BOOLEAN : PollReturn(c, ok))
    /\ WF_vars(\E t \in geminiCalls, outcome \in GeminiOutcomes \ {"null"} : GeminiReturn(t, outcome))

SpecLive == Init /\ [][NextLive]_vars /\ Responsive

\* ---------------------------------------------------------------------------
\* ChatDeepDive, the component rendered while DeepDiveActive
\* ---------------------------------------------------------------------------

\* lines 70-74: the greeting of the deep dive
ChatGreeting ==
    BotText(<<"I've analyzed your logs. You can review the report above.",
              "Feel free to ask me any questions about the findings or the logs!">>)

\* lines 57-61: the message appended when chatWithReport throws
ChatFallback ==
    BotText(<<"I'm sorry, I encountered an error while processing your request.",
              "Please try again.">>)

\* lines 48-52: the message made of result.response
ChatReply(c) == BotText(<<"response to", c.text>>)

\* the texts the user types in the deep dive, the n-th one of an instance
ChatQuestion(n) == <<"question", n>>

ChatUserMessages(ms) == {i \in 1..Len(ms) : ms[i].sender = "user"}

\* the component is rendered exactly when the condition of lines 306-311 holds
DeepDiveRendered == (chatInstance # 0) = DeepDiveActive

\* lines 14-15, 69-76: ChatDeepDive mounts, its effect puts the greeting
DeepDiveMount ==
    /\ DeepDiveActive
    /\ chatInstance = 0
    /\ chatInstance' = chatMounts + 1
    /\ chatMounts' = chatMounts + 1
    /\ chatMessages' = <<ChatGreeting>>
    /\ chatTyping' = FALSE
    /\ UNCHANGED chatCalls
    /\ UNCHANGED ChatPage

\* part_005 line 306: the condition no longer holds, the component is gone with
\* its state
DeepDiveUnmount ==
    /\ ~DeepDiveActive
    /\ chatInstance # 0
    /\ chatInstance' = 0
    /\ chatMessages' = << >>
    /\ chatTyping' = FALSE
    /\ UNCHANGED <<chatCalls, chatMounts>>
    /\ UNCHANGED ChatPage

\* lines 28-45: handleUserResponse up to the await; the textarea of the deep
\* dive (ChatInput line 118) is there whether or not the bot is typing
ChatSend(text) ==
    /\ chatInstance # 0
    /\ DeepDiveRendered
    /\ Cardinality(ChatUserMessages(chatMessages)) < MaxChats
    /\ chatMessages' = Append(chatMessages, UserText(text))
    /\ chatTyping' = TRUE
    /\ chatCalls' = chatCalls \cup
           {[id |-> FreshId(Ids(chatCalls)), instance |-> chatInstance,
             taskId |-> DeepDiveTaskId, text |-> text]}
    /\ UNCHANGED <<chatInstance, chatMounts>>
    /\ UNCHANGED ChatPage

\* a handler whose catch block appends nothing
ChatReturnSilent(c, ok) ==
    /\ c \in chatCalls
    /\ DeepDiveRendered
    /\ chatCalls' = chatCalls \ {c}
    /\ IF c.instance = chatInstance
       THEN /\ chatMessages' = IF ok THEN Append(chatMessages, ChatReply(c))
                                     ELSE chatMessages
            /\ chatTyping' = FALSE
       ELSE UNCHANGED <<chatMessages, chatTyping>>
    /\ UNCHANGED <<chatInstance, chatMounts>>
    /\ UNCHANGED ChatPage

\* lines 45-65: chatWithReport resolves (ok) or throws; the setters of an
\* instance that is no longer mounted do nothing
ChatReturn(c, ok) ==
    /\ c \in chatCalls
    /\ DeepDiveRendered
    /\ chatCalls' = chatCalls \ {c}
    /\ IF c.instance = chatInstance
       THEN /\ chatMessages' = Append(chatMessages,
                                     IF ok THEN ChatReply(c) ELSE ChatFallback)
            /\ chatTyping' = FALSE
       ELSE UNCHANGED <<chatMessages, chatTyping>>
    /\ UNCHANGED <<chatInstance, chatMounts>>
    /\ UNCHANGED ChatPage

\* one session with its deep dive, then the Reset ("New Triage"), after which
\* the user does nothing
NextDeepDive ==
    \/ DeepDiveRendered /\ resets = 0 /\ SessionNext(DeepDiveMaxTexts, DeepDiveMaxLogs)
    \/ DeepDiveRendered /\ Reset
    \/ DeepDiveRendered /\ resets > 0 /\ Unattended
    \/ DeepDiveMount
    \/ DeepDiveUnmount
    \/ \E n \in 1..MaxChats : ChatSend(ChatQuestion(n))
    \/ \E c \in chatCalls, ok \in BOOLEAN : ChatReturn(c, ok)

SpecDeepDive == Init /\ [][NextDeepDive]_vars

(***************************************************************************)
(* The task service of geminiService.ts with any client: performTriage,    *)
(* pollTriageStatus and cancelTriage are exported and may be called with   *)
(* any id, in any order.  The orchestrator does not move.                  *)
(***************************************************************************)
\* the ids a client calls the service with: those of the tasks and one more
ClientIds == 1..(ClientMaxTasks + 1)

OrchestratorState ==
    <<messages, userAnswers, processingState, isBotTyping, isInClarificationLoop,
      logUploadMode, uploadedLogs, restoredText, Completed, OrchestratorRefs,
      timers, pollTimers, validatorCalls, submitCalls, History, staleResponses>>

\* performTriage, lines 76-84: the task is stored
PerformTriage(logs) ==
    /\ Len(taskStore) < ClientMaxTasks
    /\ taskStore' = Append(taskStore, Task(logs))
    /\ UNCHANGED <<OrchestratorState, pollCalls, geminiCalls, cancelCalls>>
    /\ UNCHANGED DeepDive

\* pollTriageStatus, lines 104-131; one answer is read before the next call
PollTriageStatus(taskId) ==
    /\ pollCalls = {}
    /\ pollCalls' = {PollCall(taskId, PollStatus(taskStore, taskId))}
    /\ taskStore' = PollStore(taskStore, taskId)
    /\ geminiCalls' = IF PollStartsAnalysis(taskStore, taskId)
                      THEN geminiCalls \cup {taskId} ELSE geminiCalls
    /\ UNCHANGED <<OrchestratorState, cancelCalls>>
    /\ UNCHANGED DeepDive

\* the client reads the answer of pollTriageStatus
PollAnswerRead(c) ==
    /\ c \in pollCalls
    /\ pollCalls' = pollCalls \ {c}
    /\ UNCHANGED <<OrchestratorState, TaskClient>>
    /\ UNCHANGED DeepDive

\* cancelTriage, lines 89-97
CancelTriageCalled(taskId) ==
    /\ taskStore' = CancelTriage(taskStore, taskId)
    /\ cancelCalls' = cancelCalls \cup {taskId}
    /\ UNCHANGED <<OrchestratorState, pollCalls, geminiCalls>>
    /\ UNCHANGED DeepDive

NextClient ==
    \/ PerformTriage(<<"bad1">>)
    \/ \E taskId \in ClientIds : PollTriageStatus(taskId)
    \/ \E c \in pollCalls : PollAnswerRead(c)
    \/ \E taskId \in ClientIds : CancelTriageCalled(taskId)
    \/ \E t \in geminiCalls, outcome \in GeminiOutcomes : GeminiReturn(t, outcome)

\* the task service called by any client
SpecClient == Init /\ [][NextClient]_vars

(***************************************************************************)
(* Properties.                                                             *)
(***************************************************************************)
\* the steps in which the response to the call c is delivered
ValidatorReturns(c) == c \in validatorCalls /\ validatorCalls' = validatorCalls \ {c}
SubmitReturns(c) == c \in submitCalls /\ submitCalls' = submitCalls \ {c}
PollReturns(c) == c \in pollCalls /\ pollCalls' = pollCalls \ {c}

\* the steps in which handleStop runs
StopIssued == stops' = stops + 1

StaleResponse(kind, stopped, preReset, outcome) ==
    [kind |-> kind, stopped |-> stopped, preReset |-> preReset, outcome |-> outcome]

\* C1: a validator response whose call was issued before a Stop changes
\* neither the phase, the transcript, the cursor, the recorded answers nor
\* the accumulated description, also when a newer validator call is
\* outstanding and the phase is validating_description again.
C1_StoppedValidatorResponseDiscarded ==
    [][\A c \in validatorCalls :
          (c.stopped /\ ValidatorReturns(c)) =>
              UNCHANGED <<processingState, messages, currentQuestionIndex,
                          userAnswers, description>>]_vars

\* C1: the response to a stopped validator call has been taken as the answer
\* to the newer call, which is still outstanding
C1_StoppedValidatorResponseAccepted ==
    /\ StaleResponse("validator", TRUE, FALSE, "sufficient") \in staleResponses
    /\ processingState = "awaiting_confirmation"
    /\ \E c \in validatorCalls : ~c.stopped

\* C2: when Stop was issued while the phase was processing and a poll
\* response with status SUCCESS arrives afterwards, the phase is error and
\* stays error, and the transcript holds no message that carries a result.
C2_LateSuccessAfterStopDropped ==
    [][\A c \in pollCalls :
          (c.stopped /\ c.status = "SUCCESS" /\ PollReturns(c)) =>
              /\ processingState = "error"
              /\ processingState' = "error"
              /\ ResultMessages(messages') = {}]_vars

\* C2: a SUCCESS poll response has arrived after the Stop
C2_LateSuccessDelivered ==
    /\ StaleResponse("poll", TRUE, FALSE, "SUCCESS") \in staleResponses
    /\ processingState = "error"
    /\ ResultMessages(messages) = {}
    /\ messages[Len(messages)] = StoppedByUser

\* C3: after a Reset, the response to a validator, submit or poll call that
\* was issued before the Reset changes neither the phase, the transcript, the
\* cursor, the answers, the uploaded logs nor the task id of the new session.
C3_PreResetResponseDropped ==
    [][(\/ \E c \in validatorCalls : c.preReset /\ ValidatorReturns(c)
        \/ \E c \in submitCalls : c.preReset /\ SubmitReturns(c)
        \/ \E c \in pollCalls : c.preReset /\ PollReturns(c)) =>
           UNCHANGED <<processingState, messages, currentQuestionIndex, userAnswers,
                       uploadedLogs, triageTaskId>>]_vars

\* C3: the task id of a submission of the session before the Reset is held
\* by the new session, which has submitted nothing
C3_PreResetTaskIdHeld ==
    /\ resets > 0
    /\ StaleResponse("submit", TRUE, TRUE, "taskId") \in staleResponses
    /\ triageTaskId # 0
    /\ uploadedLogs = << >>

\* C4: a Stop issued while the phase is processing removes the pending
\* message, appends the stopped-by-user message, moves the phase to error
\* and invokes cancel on the task of the submission: on the task id held when
\* the submission has returned, and on the task the submission makes when it
\* returns after the Stop.
C4_StopCancelsTheTask ==
    [][/\ (StopIssued /\ processingState = "processing") =>
              /\ processingState' = "error"
              /\ ~HasLoading(messages')
              /\ messages'[Len(messages')] = StoppedByUser
              /\ triageTaskId # 0 => triageTaskId \in cancelCalls'
       /\ \A c \in submitCalls :
              (c.stopped /\ SubmitReturns(c) /\ Len(taskStore') > Len(taskStore)) =>
                  Len(taskStore') \in cancelCalls']_vars

\* C4: the analysis of the task of a stopped submission runs, and cancel was
\* never invoked
C4_StoppedTaskAnalysed ==
    /\ stops > 0
    /\ processingState = "error"
    /\ geminiCalls # {}
    /\ cancelCalls = {}

\* C5: a submit completion that arrives when the phase is no longer
\* processing stores no task id and schedules no poll.
C5_LateSubmitCompletionDiscarded ==
    [][\A c \in submitCalls :
          (SubmitReturns(c) /\ processingState # "processing") =>
              UNCHANGED <<triageTaskId, pollingTimeoutId, pollTimers>>]_vars

\* C5: a poll call for the task of a stopped submission is in flight
C5_PollIssuedAfterStop ==
    /\ processingState = "error"
    /\ StaleResponse("submit", TRUE, FALSE, "taskId") \in staleResponses
    /\ \E c \in pollCalls : ~c.stopped /\ c.task = triageTaskId

\* the steps in which a validator call fails and the failure is handled
ValidatorFailureHandled ==
    /\ \E c \in validatorCalls : ValidatorReturns(c) /\ ~c.stopped /\ ~c.preReset
    /\ processingState = "validating_description"
    /\ messages' # << >>
    /\ messages'[Len(messages')] = ValidationIssue

\* the steps in which a validateDescription call is issued
ValidatorCallIssued == Ids(validatorCalls') \ Ids(validatorCalls) # {}

\* C6: when a validator call fails while the phase is
\* validating_description, the pending message is removed, the accumulated
\* description is recorded unmodified as the description answer, the cursor
\* advances by one, the question then asked is the comparison choice, and no
\* validator call is issued from then on: the loop is over, and the answer to
\* the comparison choice issues none.
C6_ValidatorFailureFallsBack ==
    [][/\ ValidatorFailureHandled =>
              /\ ~HasLoading(messages')
              /\ userAnswers'["usecase_description"] = description
              /\ currentQuestionIndex' = currentQuestionIndex + 1
              /\ HasQuestion(currentQuestionIndex')
              /\ QuestionAt(currentQuestionIndex').id = "comparison_choice"
              /\ \E t \in BagToSet(timers') : t.kind = "ask"
       /\ (HasQuestion(currentQuestionIndex)
           /\ QuestionAt(currentQuestionIndex).id = "comparison_choice") =>
              ~ValidatorCallIssued]_vars

\* C6: after the fallback the answer to the comparison choice has been sent
\* to the validator and no mode has been resolved
C6_ComparisonAnswerValidated ==
    /\ ValidationIssue \in {messages[i] : i \in 1..Len(messages)}
    /\ UserText(OneOption) \in {messages[i] : i \in 1..Len(messages)}
    /\ validatorCalls # {}
    /\ logUploadMode = "none"

\* C7: the answer to the comparison choice alone fixes the mode and the
\* number of logs waited for: the "good" log option gives compare_good and 2,
\* the another "bad" log option compare_bad and 2, the one log option single
\* and 1; no logs are submitted before that number has been uploaded.
C7_ResolverTable ==
    /\ comparisonAnswer = 1 =>
           logUploadMode = "compare_good" /\ ExpectedLogCount(logUploadMode) = 2
    /\ comparisonAnswer = 2 =>
           logUploadMode = "compare_bad" /\ ExpectedLogCount(logUploadMode) = 2
    /\ comparisonAnswer = 3 =>
           logUploadMode = "single" /\ ExpectedLogCount(logUploadMode) = 1
    /\ (comparisonAnswer # 0 /\ (submitCalls # {} \/ taskStore # << >>)) =>
           Len(uploadedLogs) >= (IF comparisonAnswer = 3 THEN 1 ELSE 2)

\* C7: the another "bad" log option was chosen and, one log uploaded, the
\* second is waited for
C7_CompareBadResolved ==
    /\ comparisonAnswer = 2
    /\ logUploadMode = "compare_bad"
    /\ uploadedLogs = <<"bad1">>
    /\ processingState = "awaiting_user_input"
    /\ submitCalls = {}
    /\ taskStore = << >>

\* the logs a mode submits
SubmittedLogs(mode) ==
    IF mode = "single" THEN <<"bad1">>
    ELSE IF mode = "compare_good" THEN <<"bad1", "good">>
    ELSE IF mode = "compare_bad" THEN <<"bad1", "bad2">>
    ELSE << >>

\* C8: every upload is given the type of its mode and of the number of logs
\* uploaded before it, so that the logs submitted are [bad1] in mode single,
\* [bad1, good] in mode compare_good and [bad1, bad2] in mode compare_bad.
C8_SubmittedLogsByMode ==
    /\ \A i \in 1..Len(uploadedLogs) :
           uploadedLogs[i] = LogType(logUploadMode, i - 1)
    /\ \A c \in submitCalls : c.logs = SubmittedLogs(logUploadMode)

\* C8: three logs have been submitted in mode compare_good
C8_ThreeLogsSubmitted ==
    /\ logUploadMode = "compare_good"
    /\ \E c \in submitCalls : c.logs = <<"bad1", "good", "good">>

\* C9: the number of uploaded logs is at most the number the resolved mode
\* waits for, 1 in mode single and 2 in the compare modes.
C9_UploadsWithinExpectedCount ==
    logUploadMode # "none" => Len(uploadedLogs) <= ExpectedLogCount(logUploadMode)

\* C9: a third log has been taken in a compare mode
C9_ThirdUploadAccepted ==
    /\ logUploadMode \in {"compare_good", "compare_bad"}
    /\ Len(uploadedLogs) = 3

\* C10: at most one validator call is outstanding.
C10_OneValidatorCallOutstanding == Cardinality(validatorCalls) <= 1

\* C10: a description was submitted while the call stopped before it had not
\* returned
C10_TwoValidatorCallsOutstanding ==
    /\ \E c \in validatorCalls : c.stopped
    /\ \E c \in validatorCalls : ~c.stopped
    /\ processingState = "validating_description"

\* C11: at most one performTriage call and at most one pollTriageStatus call
\* are outstanding, and performTriage is called at most once in a session.
C11_OneSubmitOnePollOutstanding ==
    /\ Cardinality(submitCalls) <= 1
    /\ Cardinality(pollCalls) <= 1
    /\ Cardinality(submitCalls) + Len(taskStore) <= 1

\* C11: the logs have been submitted a second time while the first
\* submission has not returned
C11_TwoSubmitCallsOutstanding ==
    /\ Cardinality(submitCalls) = 2
    /\ processingState = "processing"
    /\ resets = 0

\* the steps in which poll handles the answer of the call c, which did not
\* throw, while the phase is processing
PollAnswerHandled(c) ==
    /\ PollReturns(c)
    /\ processingState = "processing"
    /\ messages' # Append(messages, PollError)

\* C12: while the phase is processing, a poll response with status PENDING
\* or PROCESSING schedules one further poll, and a poll response with status
\* SUCCESS or FAILED, whatever else it carries, schedules none, leaves no poll
\* scheduled and ends the polling: the phase is no longer processing.
C12_PollingDiscipline ==
    [][\A c \in pollCalls :
          PollAnswerHandled(c) =>
              IF c.status \in {"PENDING", "PROCESSING"}
              THEN /\ Cardinality(pollTimers' \ pollTimers) = 1
                   /\ pollTimers' \ pollTimers = {pollingTimeoutId'}
                   /\ processingState' = "processing"
              ELSE /\ pollTimers' = {}
                   /\ processingState' # "processing"]_vars

\* C12: the task has status SUCCESS and no result, its answer has been
\* handled and another poll is scheduled
C12_PollAfterSuccess ==
    /\ processingState = "processing"
    /\ triageTaskId \in DOMAIN taskStore
    /\ taskStore[triageTaskId].status = "SUCCESS"
    /\ ~taskStore[triageTaskId].result
    /\ pollCalls = {}
    /\ pollTimers = {pollingTimeoutId}
    /\ \E i \in 1..Len(messages) : messages[i].isLoading /\ messages[i].text = <<"Complete">>

\* C13: at most one poll timeout is scheduled, and one is scheduled only
\* while the phase is processing and a task id is held.
C13_OnePollTimerWhileProcessing ==
    /\ Cardinality(pollTimers) <= 1
    /\ pollTimers # {} => (processingState = "processing" /\ triageTaskId # 0)

\* C13: a poll timeout is scheduled after the Stop, in phase error
C13_PollTimerInError ==
    /\ processingState = "error"
    /\ stops > 0
    /\ pollTimers # {}
    /\ messages[Len(messages)] = StoppedByUser

\* C14: the transcript holds a message that carries a result if and only if
\* the phase is complete, and then it holds one; a poll response with status
\* SUCCESS handled while the phase is processing removes the pending message,
\* appends one result message and sets the phase to complete.
C14_ResultIffComplete ==
    /\ [](/\ (ResultMessages(messages) # {}) <=> (processingState = "complete")
          /\ Cardinality(ResultMessages(messages)) <= 1)
    /\ [][\A c \in pollCalls :
             (PollAnswerHandled(c) /\ c.status = "SUCCESS") =>
                 /\ ~HasLoading(messages')
                 /\ Cardinality(ResultMessages(messages')) = 1
                 /\ processingState' = "complete"]_vars

\* C14: a SUCCESS response has been handled, the pending message shows its
\* text, and the transcript holds no result
C14_SuccessNotCompleted ==
    /\ processingState = "processing"
    /\ ResultMessages(messages) = {}
    /\ messages[Len(messages)] = Loading(<<"Complete">>)

\* an id that the task store does not hold
UnknownTaskId == Len(taskStore) + 1

\* C15: pollTriageStatus answers FAILED for a failed or cancelled task and,
\* with "Task not found.", for an id the store does not hold; a poll
\* response with status FAILED handled while the phase is processing removes
\* the pending message, appends one failure message with the message of the
\* response, schedules no poll, clears the poll timeout it holds and sets
\* the phase to error, whatever the message is.
C15_FailedResponseHandled ==
    /\ [](/\ PollStatus(taskStore, UnknownTaskId).status = "FAILED"
          /\ PollStatus(taskStore, UnknownTaskId).message = "Task not found."
          /\ \A t \in DOMAIN taskStore :
                 taskStore[t].status = "FAILED" =>
                     PollStatus(taskStore, t).status = "FAILED")
    /\ [][\A c \in pollCalls :
             (PollAnswerHandled(c) /\ c.status = "FAILED") =>
                 /\ ~HasLoading(messages')
                 /\ messages' = Append(WithoutLoading(messages),
                                       BotText(<<"Analysis failed:", c.message>>))
                 /\ pollTimers' \subseteq pollTimers
                 /\ pollingTimeoutId \notin pollTimers'
                 /\ processingState' = "error"]_vars

\* C15: the FAILED response of a task whose analysis failed has been handled
C15_AnalysisFailedShown ==
    /\ processingState = "error"
    /\ stops = 0
    /\ messages[Len(messages)] =
           BotText(<<"Analysis failed:", "Analysis failed or was cancelled.">>)
    /\ ~HasLoading(messages)
    /\ pollTimers = {}

\* the transcript ms with the one message m after it
OneAppended(ms, m, after) == after = Append(ms, m)

\* the steps that issue no performTriage call, make no task and schedule no
\* poll
NothingStarted ==
    /\ submitCalls' \subseteq submitCalls
    /\ Len(taskStore') = Len(taskStore)
    /\ pollTimers' \subseteq pollTimers
    /\ Ids(pollCalls') \subseteq Ids(pollCalls)

\* C16: when performTriage throws, or pollTriageStatus throws, while the
\* phase is processing, one error message is appended to the transcript, the
\* phase becomes error, and the step submits nothing and schedules and
\* issues no poll.
C16_FailureEndsInError ==
    [][/\ \A c \in submitCalls :
              (SubmitReturn(c, FALSE) /\ processingState = "processing") =>
                  /\ OneAppended(messages, BotText(<<"Failed to start triage">>), messages')
                  /\ processingState' = "error"
                  /\ NothingStarted
       /\ \A c \in pollCalls :
              (PollReturn(c, FALSE) /\ processingState = "processing") =>
                  /\ OneAppended(messages,
                         BotText(<<"An error occurred while checking the analysis status.">>),
                         messages')
                  /\ processingState' = "error"
                  /\ pollingTimeoutId \notin pollTimers'
                  /\ NothingStarted]_vars

\* C16: the submission has failed, nothing was uploaded twice and nothing
\* is on its way
C16_SubmitFailed ==
    /\ processingState = "error"
    /\ messages[Len(messages)] = BotText(<<"Failed to start triage">>)
    /\ stops = 0
    /\ taskStore = << >>
    /\ submitCalls = {}
    /\ pollTimers = {}

\* C17: from the phases complete and error the phase changes only by
\* handleReset: no Stop, timeout, late response or input of the user changes
\* it, and no performTriage or pollTriageStatus call is issued in them.
C17_TerminalPhasesOnlyLeftByReset ==
    [][(processingState \in {"complete", "error"} /\ resets' = resets) =>
           /\ processingState' = processingState
           /\ submitCalls' \subseteq submitCalls
           /\ Ids(pollCalls') \subseteq Ids(pollCalls)]_vars


\* C17: the submission of the two logs of a comparison has failed, and the
\* phase is awaiting_user_input again
C17_ErrorLeftWithoutReset ==
    /\ processingState = "awaiting_user_input"
    /\ resets = 0
    /\ stops = 0
    /\ Len(uploadedLogs) = 2
    /\ messages[Len(messages)] = BotText(<<"Failed to start triage">>)


\* the pending messages of the transcript
LoadingMessages(ms) == {i \in 1..Len(ms) : ms[i].isLoading}

\* C18: the transcript holds at most one pending message, and none while
\* the phase is awaiting_user_input, awaiting_confirmation, complete or
\* error.
C18_PendingMessageBounded ==
    /\ Cardinality(LoadingMessages(messages)) <= 1
    /\ processingState \in {"awaiting_user_input", "awaiting_confirmation",
                            "complete", "error"} =>
           LoadingMessages(messages) = {}

\* C18: the submission has failed and its pending message is still in the
\* transcript
C18_PendingMessageAfterFailure ==
    /\ processingState = "error"
    /\ stops = 0
    /\ Len(messages) >= 2
    /\ messages[Len(messages)] = BotText(<<"Failed to start triage">>)
    /\ messages[Len(messages) - 1].isLoading


\* the tasks of the store whose status is SUCCESS or FAILED
TerminalTasks(store) ==
    {t \in DOMAIN store : store[t].status \in {"SUCCESS", "FAILED"}}

\* the steps in which pollTriageStatus is called
PollIssued == Ids(pollCalls') \ Ids(pollCalls) # {}

\* C19: a call of pollTriageStatus for a task whose status is SUCCESS or
\* FAILED returns that status and the result of the task, leaves the task
\* store as it is and starts no analysis; so does every call after it.
C19_TerminalPollIdempotent ==
    /\ [](\A t \in TerminalTasks(taskStore) :
              /\ PollStore(taskStore, t) = taskStore
              /\ ~PollStartsAnalysis(taskStore, t)
              /\ PollStatus(taskStore, t).status = taskStore[t].status
              /\ PollStatus(taskStore, t).result = (IF taskStore[t].result THEN t ELSE 0)
              /\ PollStatus(PollStore(taskStore, t), t) = PollStatus(taskStore, t))
    /\ [][(PollIssued /\ triageTaskId \in TerminalTasks(taskStore)) =>
              /\ taskStore' = taskStore
              /\ geminiCalls' = geminiCalls
              /\ \A c \in pollCalls' :
                     c.id \notin Ids(pollCalls) =>
                         /\ c.task = triageTaskId
                         /\ c.status = taskStore[triageTaskId].status
                         /\ c.result = (IF taskStore[triageTaskId].result
                                        THEN triageTaskId ELSE 0)]_vars

\* C19: the task has status SUCCESS, one answer SUCCESS has been handled and
\* the answer of a further poll, SUCCESS again, is on its way
C19_SuccessPolledAgain ==
    /\ triageTaskId \in DOMAIN taskStore
    /\ taskStore[triageTaskId].status = "SUCCESS"
    /\ geminiCalls = {}
    /\ \E i \in 1..Len(messages) : messages[i] = Loading(<<"Complete">>)
    /\ \E c \in pollCalls : c.task = triageTaskId /\ c.status = "SUCCESS"


\* the store that cancel of the task taskId has to leave
Cancelled(store, taskId) ==
    [u \in DOMAIN store |->
        IF u = taskId /\ store[u].status \in {"PENDING", "PROCESSING"}
        THEN [status |-> "FAILED", result |-> store[u].result, logs |-> store[u].logs]
        ELSE store[u]]

\* C20: cancelTriage sets the status of a task that is PENDING or PROCESSING
\* to FAILED and changes nothing else; for a task that is SUCCESS or FAILED
\* and for an id the store does not hold it leaves the store as it is; it
\* always returns a store, and the Stop that calls it goes through.
C20_CancelOnlyLiveTasks ==
    /\ [](\A t \in DOMAIN taskStore \cup {UnknownTaskId} :
              /\ CancelTriage(taskStore, t) = Cancelled(taskStore, t)
              /\ (t \notin DOMAIN taskStore \/ t \in TerminalTasks(taskStore)) =>
                     CancelTriage(taskStore, t) = taskStore)
    /\ [][(StopIssued /\ processingState = "processing" /\ triageTaskId # 0) =>
              /\ taskStore' = Cancelled(taskStore, triageTaskId)
              /\ triageTaskId \in TerminalTasks(taskStore')
              /\ triageTaskId \in TerminalTasks(taskStore) => taskStore' = taskStore
              /\ geminiCalls' = geminiCalls
              /\ processingState' = "error"]_vars

\* C20: the task was cancelled while its analysis was running and has the
\* status FAILED
C20_RunningTaskCancelled ==
    \E t \in cancelCalls :
        /\ t \in geminiCalls
        /\ taskStore[t].status = "FAILED"
        /\ processingState = "error"


\* the answers of the pollTriageStatus calls made in this step
NewPollCalls == {c \in pollCalls' : c.id \notin Ids(pollCalls)}

\* C21: pollTriageStatus called with an id the task store does not hold
\* answers FAILED with the message "Task not found." and no result, makes no
\* entry in the store and starts no analysis.
C21_UnknownTaskNotFound ==
    [][\A c \in NewPollCalls :
          c.task \notin DOMAIN taskStore =>
              /\ c.status = "FAILED"
              /\ c.message = "Task not found."
              /\ c.result = 0
              /\ taskStore' = taskStore
              /\ c.task \notin DOMAIN taskStore'
              /\ geminiCalls' = geminiCalls]_vars

\* C21: an id beyond the tasks of the store was polled and the answer
\* "Task not found." is on its way
C21_UnknownTaskPolled ==
    /\ taskStore # << >>
    /\ \E c \in pollCalls :
           /\ c.task \notin DOMAIN taskStore
           /\ c.status = "FAILED"
           /\ c.message = "Task not found."


\* the questions with options: tech_area, environment, impact and
\* comparison_choice
ClosedChoice == {i \in 0..(NumQuestions - 1) : QuestionAt(i).options # << >>}

\* the steps in which the user answers the closed-choice question at the
\* cursor by one of its options
ClosedChoiceAnswered ==
    /\ OptionsShown
    /\ Len(messages') > Len(messages)
    /\ messages'[Len(messages) + 1].sender = "user"

\* question i has been shown in the transcript ms and an option of it given
\* after that
Answered(ms, i) ==
    \E j \in 1..Len(ms), k \in 1..Len(ms) :
        /\ j < k
        /\ ms[j] = BotText(QuestionAt(i).text)
        /\ ms[k].sender = "user"
        /\ \E o \in 1..Len(QuestionAt(i).options) : ms[k].text = QuestionAt(i).options[o]

\* C22: every answer to a closed-choice question advances the cursor by
\* one, and a closed-choice question that was answered is not shown again
\* in the session.
C22_ClosedChoiceAdvancesOnce ==
    [][/\ ClosedChoiceAnswered => currentQuestionIndex' = currentQuestionIndex + 1
       /\ \A i \in ClosedChoice :
              (Answered(messages, i) /\ resets' = resets) =>
                  messages' # Append(messages, BotText(QuestionAt(i).text))]_vars

\* C22: the comparison choice was answered and the cursor is still at it,
\* the answer being validated as a description
C22_ComparisonAnswerNotAdvanced ==
    /\ HasQuestion(currentQuestionIndex)
    /\ QuestionAt(currentQuestionIndex).id = "comparison_choice"
    /\ Answered(messages, currentQuestionIndex)
    /\ processingState = "validating_description"
    /\ stops = 0


\* the cursor is at the description question
AtDescription ==
    HasQuestion(currentQuestionIndex)
    /\ QuestionAt(currentQuestionIndex).id = "usecase_description"

\* the steps in which a validator response is handled as sufficient or
\* insufficient: the summary or the clarifying question is shown
ValidatorAnswerShown ==
    /\ \E c \in validatorCalls : ValidatorReturns(c)
    /\ messages' # messages
    /\ messages'[Len(messages')] \in {BotText(<<"summary">>), BotText(<<"clarifyingQuestion">>)}

\* the steps in which the fallback of a failed validator call runs
ValidatorFallback ==
    /\ \E c \in validatorCalls : ValidatorReturns(c)
    /\ messages' # messages
    /\ messages'[Len(messages')] = ValidationIssue

\* the steps in which the confirmation is answered by response
ConfirmationAnswered(response) ==
    /\ processingState = "awaiting_confirmation"
    /\ Len(messages') > Len(messages)
    /\ messages'[Len(messages) + 1] = UserText(response)

\* C23: within a session the cursor never decreases; the submission of a
\* description or of a clarification answer, a validator response that is
\* not a failure, a rejected confirmation and a Stop leave it as it is; from
\* the description question it moves, by one, only in an accepted
\* confirmation or in the fallback of a failed validator call.
C23_CursorInClarificationLoop ==
    [][resets' = resets =>
          /\ currentQuestionIndex' >= currentQuestionIndex
          /\ (ValidatorCallIssued \/ ValidatorAnswerShown
                \/ ConfirmationAnswered(NoRefine) \/ StopIssued) =>
                 currentQuestionIndex' = currentQuestionIndex
          /\ (AtDescription /\ currentQuestionIndex' # currentQuestionIndex) =>
                 /\ currentQuestionIndex' = currentQuestionIndex + 1
                 /\ ConfirmationAnswered(YesProceed) \/ ValidatorFallback]_vars

\* C23: after a clarifying question, a Stop and a rejected confirmation the
\* cursor is still at the description question
C23_LoopLeftCursorInPlace ==
    /\ AtDescription
    /\ stops > 0
    /\ isInClarificationLoop
    /\ Segments(description) = 2
    /\ processingState = "awaiting_user_input"
    /\ messages[Len(messages)] = BotText(<<"My apologies. Please provide more details or correct my understanding.">>)


\* the number of messages of the transcript ms that are m
Count(ms, m) == Cardinality({i \in 1..Len(ms) : ms[i] = m})

\* the options of all questions
AllOptions ==
    UNION {{QuestionAt(i).options[o] : o \in 1..Len(QuestionAt(i).options)} :
           i \in 0..(NumQuestions - 1)}

\* the free texts the user has submitted
FreeTextMessages(ms) ==
    {i \in 1..Len(ms) :
        /\ ms[i].sender = "user"
        /\ ms[i].text \notin AllOptions \cup {YesProceed, NoRefine}
        /\ ms[i].text[1] # "Uploaded file"}

\* no Stop and no Reset, the validator has not failed, it has answered
\* sufficient, and no confirmation was rejected
FirstSufficientRound ==
    /\ stops = 0
    /\ resets = 0
    /\ Count(messages, ValidationIssue) = 0
    /\ Count(messages, UserText(NoRefine)) = 0
    /\ Count(messages, BotText(<<"summary">>)) > 0

\* C24: every free text submitted makes one validator call and one segment
\* of the accumulated description; when, with no Stop or Reset, the
\* validator has answered insufficient k times and then sufficient, the user
\* has submitted k + 1 free texts, the accumulated description has k + 1
\* segments, k clarifying questions and one summary to confirm are in the
\* transcript, and no validator call is outstanding.
C24_RoundsOfTheClarificationLoop ==
    /\ [](FirstSufficientRound =>
              /\ Count(messages, BotText(<<"summary">>)) = 1
              /\ Count(messages, BotText(<<"clarifyingQuestion">>)) + 1
                     = Segments(description)
              /\ Cardinality(FreeTextMessages(messages)) = Segments(description)
              /\ validatorCalls = {})
    /\ [][(ValidatorCallIssued /\ stops = 0 /\ resets = 0
              /\ Count(messages, ValidationIssue) = 0) =>
              /\ Cardinality(Ids(validatorCalls') \ Ids(validatorCalls)) = 1
              /\ validatorCalls = {}
              /\ Segments(description') = Segments(description) + 1
              /\ Cardinality(FreeTextMessages(messages'))
                     = Cardinality(FreeTextMessages(messages)) + 1]_vars

\* C24: one clarifying question was answered and the second validator
\* call answered sufficient: the summary waits for the confirmation
C24_SufficientOnSecondRound ==
    /\ FirstSufficientRound
    /\ processingState = "awaiting_confirmation"
    /\ Count(messages, BotText(<<"clarifyingQuestion">>)) = 1
    /\ Segments(description) = 2


\* the steps in which the user submits the free text r
TextSubmitted(r) ==
    /\ TextareaShown
    /\ Len(messages') > Len(messages)
    /\ messages'[Len(messages) + 1] = UserText(r)

\* the text of the user message appended in this step
SubmittedText == messages'[Len(messages) + 1].text

\* C25: the accumulated description changes only when the user submits a
\* free text: the first text becomes the description, every later one is
\* appended once, after the delimiter and "User refinement: "; a validator
\* call is issued with that description, and an accepted confirmation or
\* the fallback records it as the description answer.
C25_DescriptionAccumulatesFreeTexts ==
    [][resets' = resets =>
          /\ description' # description =>
                 /\ TextareaShown
                 /\ Len(messages') > Len(messages)
                 /\ TextSubmitted(SubmittedText)
                 /\ description' = IF description = << >> THEN SubmittedText
                                   ELSE description \o <<"\n", "\n", "User refinement:", " ">>
                                            \o SubmittedText
          /\ ValidatorCallIssued => description' # description
          /\ (ConfirmationAnswered(YesProceed) \/ ValidatorFallback) =>
                 userAnswers'["usecase_description"] = description]_vars

\* C25: the answer to the comparison choice is in the accumulated
\* description as a refinement
C25_OptionInDescription ==
    /\ Segments(description) = 2
    /\ Len(description) > Len(OneOption)
    /\ SubSeq(description, Len(description) - Len(OneOption) + 1, Len(description)) = OneOption
    /\ Cardinality(FreeTextMessages(messages)) = 1
    /\ stops = 0


\* line 136
Apology ==
    BotText(<<"My apologies. Please provide more details or correct my understanding.">>)

\* a confirmation was rejected and nothing was submitted since
AfterRejection ==
    /\ processingState = "awaiting_user_input"
    /\ messages # << >>
    /\ messages[Len(messages)] = Apology

\* C26: "Yes, proceed" in awaiting_confirmation records the accumulated
\* description as the description answer and advances the cursor by one
\* without a validator call; "No, refine" leaves the cursor and the answers
\* as they are and issues no validator call; the next validator call is
\* issued by the free text the user submits then, appended to the
\* description as a refinement.
C26_AcceptAndReject ==
    [][/\ ConfirmationAnswered(YesProceed) =>
              /\ userAnswers' = [userAnswers EXCEPT !["usecase_description"] = description]
              /\ currentQuestionIndex' = currentQuestionIndex + 1
              /\ ~ValidatorCallIssued
       /\ ConfirmationAnswered(NoRefine) =>
              /\ UNCHANGED <<currentQuestionIndex, userAnswers, description>>
              /\ ~ValidatorCallIssued
              /\ messages' = Append(Append(messages, UserText(NoRefine)), Apology)
              /\ processingState' = "awaiting_user_input"
       /\ AfterRejection =>
              /\ TextareaShown
              /\ ValidatorCallIssued =>
                     /\ TextSubmitted(SubmittedText)
                     /\ description' = description
                            \o <<"\n", "\n", "User refinement:", " ">> \o SubmittedText]_vars

\* C26: a confirmation was rejected with the cursor at the comparison
\* choice: the options are shown, no free text can be given
C26_RejectedAtComparisonChoice ==
    /\ AfterRejection
    /\ OptionsShown
    /\ QuestionAt(currentQuestionIndex).id = "comparison_choice"
    /\ isInClarificationLoop


\* C27: a Stop in phase validating_description removes the pending message,
\* puts the text of the last message of the user into restoredText, from
\* where the text area takes it, removes that message from the transcript,
\* sets the phase to awaiting_user_input, calls no cancelTriage, and leaves
\* the cursor and the answers as they are.
C27_StopDuringValidation ==
    [][(StopIssued /\ processingState = "validating_description") =>
          /\ ~HasLoading(messages')
          /\ \E i \in 1..Len(messages) :
                 /\ messages[i].sender = "user"
                 /\ \A j \in (i + 1)..Len(messages) : messages[j].sender # "user"
                 /\ restoredText' = messages[i].text
                 /\ messages' = SelectSeq(SubSeq(messages, 1, i - 1)
                                             \o SubSeq(messages, i + 1, Len(messages)),
                                          NotLoading)
          /\ TextareaShown' => restoredText' \in TextInputs'
          /\ processingState' = "awaiting_user_input"
          /\ cancelCalls' = cancelCalls
          /\ taskStore' = taskStore
          /\ UNCHANGED <<currentQuestionIndex, userAnswers>>]_vars

\* C27: the validation of a clarification answer was stopped: the answer
\* is in restoredText and no longer in the transcript, which ends with the
\* clarifying question
C27_ClarificationAnswerRestored ==
    /\ stops = 1
    /\ processingState = "awaiting_user_input"
    /\ restoredText # << >>
    /\ messages[Len(messages)] = BotText(<<"clarifyingQuestion">>)
    /\ validatorCalls # {}
    /\ cancelCalls = {}
    /\ AtDescription


\* the steps in which handleReset runs
ResetIssued == resets' = resets + 1

\* the state of a session that has not begun
InitialSession ==
    /\ processingState = "idle"
    /\ currentQuestionIndex = 0
    /\ userAnswers = NoAnswers
    /\ uploadedLogs = << >>
    /\ logUploadMode = "none"
    /\ description = << >>
    /\ ~isInClarificationLoop
    /\ messages = << >>
    /\ restoredText = << >>
    /\ triageTaskId = 0
    /\ pollingTimeoutId = 0
    /\ pollTimers = {}

\* C28: handleReset leaves the state of a session that has not begun,
\* whatever the state before it was: phase idle, cursor 0, no answers, no
\* logs, mode none, empty description, loop flag off, empty transcript, no
\* task id, no poll scheduled; so a Reset after a Reset leaves that state
\* again.
C28_ResetGivesInitialSession ==
    [][ResetIssued => InitialSession']_vars


\* C28: the session was reset and a poll of it is still scheduled
C28_PollScheduledAfterReset ==
    /\ resets = 1
    /\ processingState = "idle"
    /\ messages = << >>
    /\ triageTaskId = 0
    /\ pollTimers # {}


\* C29: ChatDeepDive is rendered only in phase complete, and the result it
\* is given is the result of the task whose id it is given; the poll
\* response that moves the phase to complete is the answer to a poll of this
\* session for the task id held, and carries the result of that task.
C29_DeepDiveOfOneTask ==
    /\ [](DeepDiveActive =>
              /\ processingState = "complete"
              /\ DeepDiveResult = DeepDiveTaskId)
    /\ [][\A c \in pollCalls :
             (PollReturns(c) /\ processingState = "processing"
                  /\ processingState' = "complete") =>
                 /\ ~c.preReset
                 /\ c.task = triageTaskId
                 /\ c.result = c.task
                 /\ DeepDiveActive']_vars

\* C29: ChatDeepDive is rendered with the result of one task and the id of
\* another
C29_DeepDiveOfTwoTasks ==
    /\ DeepDiveActive
    /\ DeepDiveResult # DeepDiveTaskId

\* the follow-up calls of the mounted ChatDeepDive that have not returned
ChatCallsOutstanding == {c \in chatCalls : c.instance = chatInstance}

\* the bot messages of the deep dive after its greeting
ChatBotReplies(ms) == {i \in 2..Len(ms) : ms[i].sender = "bot"}

\* this step is the return of the follow-up call c
ChatReturns(c) == c \in chatCalls /\ c \notin chatCalls'

\* this step appends the user message of the deep dive
ChatUserAppended ==
    /\ Len(chatMessages') = Len(chatMessages) + 1
    /\ chatMessages'[Len(chatMessages')].sender = "user"

\* C30: in the deep dive every user message gets exactly one bot message: the
\* user messages are as many as the bot replies plus the calls not yet
\* returned, the return of a call appends one bot message and nothing else,
\* the reply of the service if the call succeeded and the one fixed fallback
\* if it failed; a failed call leaves the deep dive mounted and the phase
\* complete, and every user message, also one after a failure, issues
\* exactly one follow-up call with its text
C30_OneBotMessagePerUserMessage ==
    /\ [](chatInstance # 0 =>
            Cardinality(ChatUserMessages(chatMessages)) =
                Cardinality(ChatBotReplies(chatMessages))
                    + Cardinality(ChatCallsOutstanding))
    /\ [][\A c \in ChatCallsOutstanding :
            ChatReturns(c) =>
                /\ Len(chatMessages') = Len(chatMessages) + 1
                /\ SubSeq(chatMessages', 1, Len(chatMessages)) = chatMessages
                /\ chatMessages'[Len(chatMessages')].sender = "bot"
                /\ ~chatMessages'[Len(chatMessages')].isLoading
                /\ ChatReturn(c, TRUE) =>
                       chatMessages'[Len(chatMessages')].text = <<"response to", c.text>>
                /\ ChatReturn(c, FALSE) =>
                       /\ chatMessages'[Len(chatMessages')] = ChatFallback
                       /\ chatInstance' = chatInstance
                       /\ DeepDiveActive'
                       /\ processingState' = "complete"]_vars
    /\ [][ChatUserAppended =>
            /\ Cardinality(chatCalls' \ chatCalls) = 1
            /\ \A c \in chatCalls' \ chatCalls :
                   /\ c.text = chatMessages'[Len(chatMessages')].text
                   /\ c.instance = chatInstance
            /\ chatCalls \subseteq chatCalls']_vars

\* witness of C30: a follow-up call failed, the fallback is in the transcript,
\* and the user message sent after it got the reply of the service
C30_ReplyAfterFallback ==
    /\ chatInstance # 0
    /\ \E i, j, k \in 1..Len(chatMessages) :
           /\ i < j /\ j < k
           /\ chatMessages[i] = ChatFallback
           /\ chatMessages[j].sender = "user"
           /\ chatMessages[k].sender = "bot"
           /\ chatMessages[k] # ChatFallback
    /\ ChatCallsOutstanding = {}


\* C31: the deep dive is turn-based: at most one follow-up call of the
\* mounted ChatDeepDive is outstanding, and its typing indicator is on exactly
\* while one is outstanding
C31_DeepDiveTurnBased ==
    chatInstance # 0 =>
        /\ Cardinality(ChatCallsOutstanding) <= 1
        /\ chatTyping <=> ChatCallsOutstanding # {}

\* witness of C31: the second message was sent while the first call was
\* outstanding; one of the two calls has returned and put the indicator off
\* while the other has not returned
C31_IndicatorOffCallOutstanding ==
    /\ chatInstance # 0
    /\ ChatCallsOutstanding # {}
    /\ ~chatTyping
    /\ Cardinality(ChatUserMessages(chatMessages)) = 2
    /\ Cardinality(ChatBotReplies(chatMessages)) = 1


\* the cursor is past the last question
CollectingArtifacts == currentQuestionIndex >= NumQuestions

\* the bot messages that request an upload
UploadRequests(ms) == {i \in 1..Len(ms) : ms[i].requiresFileUpload}

\* C32: when the timeout of askQuestion fires with the cursor past the last
\* question, the orchestrator starts waiting for artifact number k, k being the
\* number of logs uploaded so far: exactly one message is appended, it requests
\* an upload, and it is the message that names the artifact of tag
\* LogType(mode, k) for the mode the user chose
C32_UploadPromptNamesArtifact ==
    [][\A t \in BagToSet(timers) :
          AskTimeout(t) /\ CollectingArtifacts =>
              /\ logUploadMode \in {"single", "compare_good", "compare_bad"}
              /\ messages' = messages \o UploadPrompt(logUploadMode, Len(uploadedLogs))
              /\ Len(messages') = Len(messages) + 1
              /\ messages'[Len(messages')].requiresFileUpload]_vars

\* witness of C32: the comparison choice is answered, the mode is resolved, the
\* upload control is shown for the first artifact, and the transcript has no
\* message that requests an upload
C32_WaitingWithoutPrompt ==
    /\ CollectingArtifacts
    /\ processingState = "awaiting_user_input"
    /\ logUploadMode \in {"single", "compare_good", "compare_bad"}
    /\ uploadedLogs = << >>
    /\ ~isBotTyping
    /\ BagToSet(timers) = {}
    /\ UploadRequests(messages) = {}


\* C33: from phase processing the phase moves only to complete or error, or
\* to idle by Reset; no timeout or callback brings it back to
\* awaiting_user_input or to any phase of the interview
C33_ProcessingOnlyLeftToTerminal ==
    [][processingState = "processing" =>
          \/ processingState' \in {"processing", "complete", "error"}
          \/ processingState' = "idle" /\ ResetIssued]_vars

\* witness of C33: the logs are submitted and not stopped, the task is live,
\* and the phase is awaiting_user_input again with the loading message of the
\* submission still in the transcript
C33_InputShownWhileTaskLive ==
    /\ processingState = "awaiting_user_input"
    /\ stops = 0
    /\ resets = 0
    /\ LoadingMessages(messages) # {}
    /\ triageTaskId # 0
    /\ triageTaskId \in DOMAIN taskStore
    /\ taskStore[triageTaskId].status \in {"PENDING", "PROCESSING"}


\* C34: without Stop and Reset, with performTriage resolving, every poll call
\* returning and the analysis ending with a result or a failure, the phase
\* processing leads to phase complete or error, and from then on no poll
\* timeout is pending and no poll call is made
C34_PollingTerminates ==
    (processingState = "processing") ~>
        (/\ processingState \in {"complete", "error"}
         /\ [](pollTimers = {} /\ pollCalls = {}))

\* witness of C34: the two logs of a compare mode were submitted, the task has
\* ended with a result, nothing is pending, and the phase is neither complete
\* nor error
C34_TaskDoneSessionNotEnded ==
    /\ processingState = "awaiting_user_input"
    /\ stops = 0 /\ resets = 0
    /\ Len(uploadedLogs) = 2
    /\ triageTaskId \in DOMAIN taskStore
    /\ taskStore[triageTaskId].status = "SUCCESS"
    /\ BagToSet(timers) = {}
    /\ pollTimers = {} /\ pollCalls = {} /\ submitCalls = {} /\ geminiCalls = {}


\* the modes in which logs are collected
CollectionModes == {"single", "compare_good", "compare_bad"}

\* the user messages of the transcript that follow the comparison choice
\* question
ComparisonReplies(ms) ==
    {i \in 2..Len(ms) :
        /\ ms[i].sender = "user"
        /\ ms[i - 1] = BotText(TRIAGE_QUESTIONS[NumQuestions].text)}

\* C35: whenever the cursor is past the last question the mode is single,
\* compare_good or compare_bad, and it is the mode of the option the user
\* answered to the comparison choice question, on every path, the one through
\* the validator failure included
C35_ModeResolvedWhenCollecting ==
    CollectingArtifacts =>
        /\ logUploadMode \in CollectionModes
        /\ \A i \in ComparisonReplies(messages) :
               logUploadMode = ResolveMode(messages[i].text)

\* witness of C35: after a failure of the validator the cursor has passed the
\* last question, the upload control is shown and the mode is none, although
\* the user has chosen an option of the comparison choice
C35_CollectingWithoutMode ==
    /\ CollectingArtifacts
    /\ processingState = "awaiting_user_input"
    /\ BagToSet(timers) = {}
    /\ logUploadMode = "none"
    /\ ComparisonReplies(messages) # {}
    /\ stops = 0


\* the status of task t moves from a to b in this step
StatusMoves(t, a, b) == taskStore[t].status = a /\ taskStore'[t].status = b

\* C36: a task is created PENDING without a result; its status moves only
\* from PENDING to PROCESSING, by a poll that starts its analysis, from
\* PROCESSING to SUCCESS, when its analysis returns, and from PENDING or
\* PROCESSING to FAILED; SUCCESS and FAILED are never left and a cancelled
\* task does not become SUCCESS when its analysis returns; a task has a result
\* only when its status is SUCCESS
C36_TaskStatusLifecycle ==
    /\ [](\A t \in DOMAIN taskStore :
              /\ taskStore[t].status \in {"PENDING", "PROCESSING", "SUCCESS", "FAILED"}
              /\ taskStore[t].result => taskStore[t].status = "SUCCESS")
    /\ [][/\ DOMAIN taskStore \subseteq DOMAIN taskStore'
          /\ \A t \in DOMAIN taskStore' \ DOMAIN taskStore :
                 taskStore'[t].status = "PENDING" /\ ~taskStore'[t].result
          /\ \A t \in DOMAIN taskStore :
                 \/ taskStore'[t] = taskStore[t]
                 \/ /\ StatusMoves(t, "PENDING", "PROCESSING")
                    /\ PollIssued
                    /\ t \in geminiCalls' \ geminiCalls
                 \/ /\ StatusMoves(t, "PROCESSING", "SUCCESS")
                    /\ t \in geminiCalls \ geminiCalls'
                 \/ /\ StatusMoves(t, "PROCESSING", "FAILED")
                    /\ ~taskStore'[t].result
                 \/ /\ StatusMoves(t, "PENDING", "FAILED")
                    /\ ~taskStore'[t].result
                    /\ geminiCalls' = geminiCalls]_vars

\* witness of C36: the first poll of a task started its analysis, the task was
\* cancelled, the analysis has returned, and the task is FAILED without a
\* result
C36_CancelledTaskAnalysisReturned ==
    \E t \in cancelCalls \cap DOMAIN taskStore :
        /\ taskStore[t].status = "FAILED"
        /\ ~taskStore[t].result
        /\ t \notin geminiCalls
        /\ \E c \in pollCalls :
               c.task = t /\ c.message = "AI is reviewing the logs..."


\* the tasks whose analysis is started in this step
AnalysisStarted == geminiCalls' \ geminiCalls

\* C37: the analysis of a task is started only by a poll that finds the task
\* PENDING, which leaves it PROCESSING; no task becomes PENDING again, so the
\* analysis is started at most once, and never for a task cancelled before its
\* first poll; the step that creates a task starts no analysis
C37_AnalysisStartedOnce ==
    /\ [](\A t \in geminiCalls :
              t \in DOMAIN taskStore /\ taskStore[t].status \in {"PROCESSING", "FAILED"})
    /\ [][\A t \in AnalysisStarted :
              /\ PollIssued
              /\ \E c \in NewPollCalls : c.task = t
              /\ t \in DOMAIN taskStore
              /\ taskStore[t].status = "PENDING"
              /\ taskStore'[t].status = "PROCESSING"]_vars
    /\ [][\A t \in DOMAIN taskStore :
              taskStore[t].status # "PENDING" => taskStore'[t].status # "PENDING"]_vars
    /\ [][DOMAIN taskStore' # DOMAIN taskStore => AnalysisStarted = {}]_vars

\* witness of C37: the analysis of a task is running and a later poll of the
\* task has found it PROCESSING
C37_SecondPollWhileAnalysisRuns ==
    \E t \in geminiCalls :
        /\ taskStore[t].status = "PROCESSING"
        /\ \E c \in pollCalls :
               c.task = t /\ c.message = "Generating summary and actions..."


\* the accumulated description before its last free text was submitted
WithoutLastSegment(d) ==
    IF Segments(d) <= 1 THEN << >>
    ELSE LET i == CHOOSE k \in 1..Len(d) :
                      /\ d[k] = "User refinement:"
                      /\ \A j \in (k + 1)..Len(d) : d[j] # "User refinement:"
         IN  SubSeq(d, 1, i - 3)

\* the number of places of d where the text r stands
Occurrences(d, r) ==
    Cardinality({i \in 1..Len(d) : i + Len(r) - 1 <= Len(d)
                                     /\ SubSeq(d, i, i + Len(r) - 1) = r})

\* C38: a Stop in phase validating_description withdraws the stopped
\* submission: the accumulated description is again what it was before the
\* last free text was submitted, and the clarification flag is again what it
\* was (set if and only if free texts had been submitted before it); when the
\* restored text is submitted again it stands exactly once in the accumulated
\* description
C38_StopWithdrawsSubmission ==
    /\ [][(StopIssued /\ processingState = "validating_description") =>
              /\ description' = WithoutLastSegment(description)
              /\ isInClarificationLoop' = (Segments(description) > 1)]_vars
    /\ [][(restoredText # << >> /\ TextSubmitted(restoredText)) =>
              Occurrences(description', restoredText) = 1]_vars

\* witness of C38: the first description was submitted, stopped, restored and
\* submitted again; it stands twice in the accumulated description that is
\* being validated
C38_RestoredTextTwice ==
    /\ stops = 1
    /\ processingState = "validating_description"
    /\ \E c \in validatorCalls : ~c.stopped
    /\ Segments(description) = 2
    /\ \E r \in {<<"1">>} :
           description = r \o RefinementDelimiter \o r


\* C39: handleStop called in a phase other than validating_description and
\* processing leaves the phase, the transcript, the cursor, the answers, the
\* logs, the mode, the description and the task id as they are; it clears the
\* poll timeout held in pollingTimeoutIdRef and nothing else, and calls no
\* cancelTriage
C39_StopElsewhereOnlyClearsTimer ==
    [][(StopIssued /\ processingState \notin {"validating_description", "processing"}) =>
          /\ UNCHANGED <<processingState, messages, currentQuestionIndex, userAnswers,
                         uploadedLogs, logUploadMode, description, triageTaskId>>
          /\ UNCHANGED <<isInClarificationLoop, restoredText, isBotTyping, Completed>>
          /\ pollTimers' = pollTimers \ {pollingTimeoutId}
          /\ pollingTimeoutId' = 0
          /\ UNCHANGED <<cancelCalls, taskStore, geminiCalls>>
          /\ UNCHANGED <<validatorCalls, submitCalls, pollCalls>>]_vars

\* witness of C39: the submission was stopped before performTriage returned;
\* its late completion stored the task id and scheduled a poll in phase error;
\* handleStop, called again, cleared that timeout: the task was never polled
\* and never cancelled
C39_OrphanPollCleared ==
    /\ stops = 2
    /\ processingState = "error"
    /\ triageTaskId # 0
    /\ triageTaskId \in DOMAIN taskStore
    /\ taskStore[triageTaskId].status = "PENDING"
    /\ cancelCalls = {}
    /\ submitCalls = {} /\ pollCalls = {} /\ pollTimers = {}
    /\ pollingTimeoutId = 0


\* C40: the cursor is between 0 and the number of questions; within a session
\* it advances by one at a time, at a closed-choice question by the answer to
\* it, at the description question by an accepted confirmation or by the
\* fallback of a failed validation; confirmations and fallbacks advance it
\* nowhere else, so the description question is passed once
C40_CursorAdvancedOncePerQuestion ==
    /\ [](currentQuestionIndex \in 0..NumQuestions)
    /\ [][resets' = resets =>
              /\ currentQuestionIndex' \in {currentQuestionIndex, currentQuestionIndex + 1}
              /\ currentQuestionIndex' = currentQuestionIndex + 1 =>
                     IF AtDescription
                     THEN ConfirmationAnswered(YesProceed) \/ ValidatorFallback
                     ELSE /\ currentQuestionIndex \in ClosedChoice
                          /\ ClosedChoiceAnswered
                          /\ ~isInClarificationLoop]_vars

\* witness of C40: two validations have failed in one session and each
\* fallback has advanced the cursor, which is past the comparison choice
\* without an answer to it having been taken
C40_TwoFallbacksAdvanced ==
    /\ resets = 0
    /\ currentQuestionIndex = NumQuestions
    /\ Count(messages, ValidationIssue) = 2
    /\ comparisonAnswer = 0

====
